---- MODULE Spec2Model ----
(***************************************************************************)
(* Model of the normalization pipeline of the Qatar event collection       *)
(* agent: the geolocation cache (src/src/geolocation.py) and the           *)
(* timestamp normalizer (src/src/timestamp_utils.py).                      *)
(*                                                                         *)
(* Python values are encoded as follows.  A str is a TLA+ string.  An      *)
(* optional value is a sequence: None is << >> and a present value v is    *)
(* <<v>>.  A dict is a function from its keys (strings) to encoded values. *)
(* A float coordinate is an integer number of 1e-7 degrees.                *)
(***************************************************************************)
EXTENDS Integers, Sequences, FiniteSets, TLC

VARIABLES
    geolocation_cache,  \* _geolocation_cache: None, or Some(dict name -> entry)
    cache_file,         \* content of GEOLOCATION_CACHE_FILE on disk
    op,                 \* the operation that produced the current state
    last,               \* the most recent get_location_coordinates call
    prev,               \* the call before it
    written,            \* keys stored by get_location_coordinates so far
    host_offset,        \* UTC offset of the executing machine, in minutes
    event,              \* input record of the timestamp normalizer
    converted,          \* outcome of convert_datetime_to_timestamps(event), None before the call
    converted_clean,    \* outcome of convert_datetime_to_timestamps_clean(event)
    date_range,         \* result of extract_date_range(event date)
    events,             \* input batch of save_raw_events_with_timestamps
    raw_file,           \* records of events_01_raw.json, None while the file is absent
    processed_file,     \* records of events_02_processed.json
    saved,              \* "idle", or how the save call ended: "returned", "raised"
    dedup_events,       \* input list of intelligent_deduplication
    deduplicated,       \* outcome of intelligent_deduplication, None before the call
    canon_event,        \* a record as the extractor left it
    canon_order,        \* its keys, in their order
    record,             \* the record after the functions applied so far
    key_order,          \* its keys, in their order
    before,             \* the record and its keys before the last function
    applied,            \* the functions applied to the record, in sequence
    listing_markdown,   \* the text of a scraped listing page
    ilq_urls,           \* result of extract_ilq_event_urls, None before the call
    marhaba_urls,       \* result of extract_marhaba_event_urls, None before the call
    candidates,         \* the records extracted from one detail page
    page_slug_tokens,     \* the tokens of the slug of the page
    primary,            \* result of _select_primary_event_by_slug_tokens, in a
                        \* one-element sequence; empty before the call
    page_events,        \* the records the page contributes, None before the call
    time_text,          \* argument of parse_time_to_minutes
    minutes,            \* its result, None before the call
    run_pc,             \* the step of main that comes next, or how the run ended
    all_events,         \* all_events of main: the records extracted in this run
    interrupted,        \* the flag set by signal_handler
    in_flight,          \* index of the record add_coordinates_to_events is working on, 0 if none
    geocode_index,      \* number of records add_coordinates_to_events has finished
    stage_log,          \* the stages applied so far, one entry per record, in sequence
    curated_file,       \* records of events_03_curated.json, None while absent
    final_file,         \* records of events_04_final.json, None while absent
    scrape_pc,          \* position in scrape_with_pagination
    page_number,        \* the listing page requested next
    collected_event_urls,   \* the event URLs collected, in sequence
    seen_event_urls,    \* the set of the URLs collected
    page_log,           \* what the scraper answered for each listing page requested
    detail_log,         \* the detail pages requested, in sequence
    scrape_result       \* the value returned, None before the return

geo_vars == <<geolocation_cache, cache_file, op, last, prev, written>>
time_vars == <<host_offset, event, converted, converted_clean, date_range>>
save_vars == <<events, raw_file, processed_file, saved>>
dedup_vars == <<dedup_events, deduplicated>>
canon_vars == <<canon_event, canon_order, record, key_order, before, applied>>
url_vars == <<listing_markdown, ilq_urls, marhaba_urls>>
page_vars == <<candidates, page_slug_tokens, primary, page_events>>
clock_vars == <<time_text, minutes>>
run_vars == <<run_pc, all_events, interrupted, in_flight, geocode_index, stage_log,
              curated_file, final_file>>
scrape_vars == <<scrape_pc, page_number, collected_event_urls, seen_event_urls, page_log,
                 detail_log, scrape_result>>
late_vars == <<clock_vars, run_vars, scrape_vars>>
stage_vars == <<dedup_vars, canon_vars, url_vars, page_vars, late_vars>>
vars == <<geo_vars, time_vars, save_vars, stage_vars>>

----------------------------------------------------------------------------
(* Optional values and strings *)

None == << >>
Some(v) == <<v>>
IsNone(o) == Len(o) = 0
Val(o) == o[1]

Ch(s, i) == IF 1 <= i /\ i <= Len(s) THEN SubSeq(s, i, i) ELSE ""
\* s[i-1:j] with Python's clamping of the bounds
Slice(s, i, j) ==
    LET a == IF i < 1 THEN 1 ELSE i
        b == IF j > Len(s) THEN Len(s) ELSE j
    IN  IF a > b THEN "" ELSE SubSeq(s, a, b)
From(s, i) == Slice(s, i, Len(s))

IsSpace(c) == c \in {" ", "\t", "\n", "\r"}

RECURSIVE lstrip(_)
lstrip(s) == IF Len(s) > 0 /\ IsSpace(Ch(s, 1)) THEN lstrip(From(s, 2)) ELSE s

RECURSIVE rstrip(_)
rstrip(s) ==
    IF Len(s) > 0 /\ IsSpace(Ch(s, Len(s))) THEN rstrip(Slice(s, 1, Len(s) - 1)) ELSE s

strip(s) == rstrip(lstrip(s))

StartsAt(s, sub, i) ==
    /\ i >= 1
    /\ i + Len(sub) - 1 <= Len(s)
    /\ Slice(s, i, i + Len(sub) - 1) = sub

\* str.find, 1-based; 0 when sub does not occur at or after position i
RECURSIVE find(_, _, _)
find(s, sub, i) ==
    IF i + Len(sub) - 1 > Len(s) THEN 0
    ELSE IF StartsAt(s, sub, i) THEN i
    ELSE find(s, sub, i + 1)

contains(s, sub) == find(s, sub, 1) > 0

\* str.split(sep) for a non-empty separator
RECURSIVE split(_, _)
split(s, sep) ==
    LET p == find(s, sep, 1) IN
    IF p = 0 THEN <<s>>
    ELSE <<Slice(s, 1, p - 1)>> \o split(From(s, p + Len(sep)), sep)

Digits == "0123456789"
IsDigit(c) == \E d \in 0..9 : Ch(Digits, d + 1) = c
DigitVal(c) == CHOOSE d \in 0..9 : Ch(Digits, d + 1) = c

RECURSIVE AllDigits(_)
AllDigits(s) == Len(s) = 0 \/ (IsDigit(Ch(s, 1)) /\ AllDigits(From(s, 2)))

RECURSIVE int(_)
int(s) == IF Len(s) = 0 THEN 0 ELSE 10 * int(Slice(s, 1, Len(s) - 1)) + DigitVal(Ch(s, Len(s)))

Lower == "abcdefghijklmnopqrstuvwxyz"
Upper == "ABCDEFGHIJKLMNOPQRSTUVWXYZ"

UpperCh(c) ==
    IF \E k \in 1..26 : Ch(Lower, k) = c
    THEN Ch(Upper, CHOOSE k \in 1..26 : Ch(Lower, k) = c)
    ELSE c

LowerCh(c) ==
    IF \E k \in 1..26 : Ch(Upper, k) = c
    THEN Ch(Lower, CHOOSE k \in 1..26 : Ch(Upper, k) = c)
    ELSE c

RECURSIVE upper(_)
upper(s) == IF Len(s) = 0 THEN "" ELSE UpperCh(Ch(s, 1)) \o upper(From(s, 2))

RECURSIVE lower(_)
lower(s) == IF Len(s) = 0 THEN "" ELSE LowerCh(Ch(s, 1)) \o lower(From(s, 2))

----------------------------------------------------------------------------
(* Geolocation cache: src/src/geolocation.py *)

RECURSIVE Pow10(_)
Pow10(n) == IF n = 0 THEN 1 ELSE 10 * Pow10(n - 1)

\* one degree, in the unit of the model's coordinates (1e-7 degree)
Degree == Pow10(7)

\* float(s) for plain decimal text [sign] digits [. digits]; None stands for
\* ValueError.  Fraction digits past the seventh are dropped.
float_value(neg, ip, fp) ==
    IF Len(ip) + Len(fp) > 0 /\ AllDigits(ip) /\ AllDigits(fp)
    THEN Some((IF neg THEN 0 - 1 ELSE 1)
              * (int(ip) * Degree + int(Slice(fp, 1, 7)) * Pow10(7 - Len(Slice(fp, 1, 7)))))
    ELSE None

float_parts(neg, u, dot) ==
    float_value(neg, IF dot = 0 THEN u ELSE Slice(u, 1, dot - 1),
                IF dot = 0 THEN "" ELSE From(u, dot + 1))

float_signed(neg, u) == float_parts(neg, u, find(u, ".", 1))

float_stripped(t) ==
    float_signed(Ch(t, 1) = "-", IF Ch(t, 1) \in {"-", "+"} THEN From(t, 2) ELSE t)

float(s) == float_stripped(strip(s))

Entry(lat, lng, name) == [lat |-> lat, lng |-> lng, name |-> name]
NullEntry(name) == Entry(None, None, Some(name))

\* dict.get(key) on a JSON object whose members are optional values
Get(d, key) == IF key \in DOMAIN d THEN d[key] ELSE None

\* the try block of the "lat|lng|name" branch: either float() may raise
migrate_parts(location_name, lat, lng, name) ==
    IF ~IsNone(lat) /\ ~IsNone(lng)
    THEN Entry(lat, lng, Some(name))
    ELSE NullEntry(location_name)

migrate_split(location_name, parts) ==
    IF Len(parts) >= 3
    THEN migrate_parts(location_name, float(parts[1]), float(parts[2]), parts[3])
    ELSE NullEntry(location_name)

\* A JSON value of the cache file is [str |-> s], [dict |-> d] or [num |-> n].
migrate_value(location_name, value) ==
    IF "str" \in DOMAIN value THEN
        IF contains(value.str, "|")
        THEN migrate_split(location_name, split(value.str, "|"))
        ELSE Entry(None, None, Some(value.str))
    ELSE IF "dict" \in DOMAIN value THEN
        IF {"lat", "lng", "name"} \subseteq DOMAIN value.dict
        THEN value.dict
        ELSE Entry(Get(value.dict, "lat"), Get(value.dict, "lng"),
                   IF "name" \in DOMAIN value.dict THEN value.dict["name"]
                   ELSE Some(location_name))
    ELSE NullEntry(location_name)

migrate_old_cache_format(cache) ==
    [location_name \in DOMAIN cache |-> migrate_value(location_name, cache[location_name])]

\* json.dump of the in-memory cache: every entry becomes a JSON object
json_dump(cache) == [kind |-> "json", data |-> [k \in DOMAIN cache |-> [dict |-> cache[k]]]]

save_geolocation_cache(cache) == json_dump(cache)

EmptyCache == [k \in {} |-> NullEntry("")]

\* lines 106-110: the migrated cache is kept in memory and written back
load_migrated(migrated) == [cache |-> migrated, file |-> save_geolocation_cache(migrated)]

\* returns the pair [cache, file] after the call
load_geolocation_cache(mem, file) ==
    IF ~IsNone(mem) THEN [cache |-> Val(mem), file |-> file]
    ELSE IF file.kind = "absent" THEN [cache |-> EmptyCache, file |-> file]
    ELSE IF file.kind = "corrupt" THEN [cache |-> EmptyCache, file |-> file]
    ELSE load_migrated(migrate_old_cache_format(file.data))

invalid_locations ==
    {"N/A", "TBD", "To be announced", "TBA", "To be determined", "Location TBA", "Venue TBA"}

LAT_MIN == 245000000
LAT_MAX == 265000000
LNG_MIN == 505000000
LNG_MAX == 525000000

\* a variant that validates the latitude only
InQatar_lat_only(lat, lng) == LAT_MIN <= lat /\ lat <= LAT_MAX

InQatar(lat, lng) == LAT_MIN <= lat /\ lat <= LAT_MAX /\ LNG_MIN <= lng /\ lng <= LNG_MAX

\* a variant that starts a new dict instead of adding to the cache
store_location_alone(location_name, location_data, cache) ==
    [k \in {location_name} |-> location_data]

\* lines 174-179: the entry is put in the cache and the cache is saved
store_location(location_name, location_data, cache) ==
    [k \in DOMAIN cache \cup {location_name} |->
        IF k = location_name THEN location_data ELSE cache[k]]

Outcome(ret, cache, file, geocoded) ==
    [ret |-> ret, mem |-> Some(cache), file |-> file, geocoded |-> geocoded, loaded |-> TRUE]

\* a variant that forgets the save of line 178
cached_outcome_nosave(location_data, cache, file) ==
    Outcome(location_data, cache, file, TRUE)

cached_outcome(location_data, cache, file) ==
    Outcome(location_data, cache, save_geolocation_cache(cache), TRUE)

\* The answer of the Geocoding API: [status |-> "OK", lat, lng] for a first
\* result, [status |-> "ZERO_RESULTS"], or [status |-> "error"] for a request
\* that raises (timeout, connection error, HTTP error).
get_location_coordinates_miss(location_name, response, cache, file) ==
    IF response.status = "OK" /\ InQatar(response.lat, response.lng)
    THEN cached_outcome(
            Entry(Some(response.lat), Some(response.lng), Some(location_name)),
            store_location(location_name,
                Entry(Some(response.lat), Some(response.lng), Some(location_name)), cache),
            file)
    ELSE Outcome(NullEntry(location_name), cache, file, TRUE)

\* a variant that resolves again although the name is cached
get_location_coordinates_always_miss(location_name, response, l) ==
    get_location_coordinates_miss(location_name, response, l.cache, l.file)

get_location_coordinates_loaded(location_name, response, l) ==
    IF location_name \in DOMAIN l.cache
    THEN Outcome(l.cache[location_name], l.cache, l.file, FALSE)
    ELSE get_location_coordinates_miss(location_name, response, l.cache, l.file)

\* a variant that compares the untrimmed name with the placeholder list
get_location_coordinates_nostrip(location_name, response, mem, file) ==
    IF location_name = "" \/ strip(location_name) = ""
       \/ location_name \in invalid_locations
    THEN [ret |-> NullEntry(location_name), mem |-> mem, file |-> file,
          geocoded |-> FALSE, loaded |-> FALSE]
    ELSE get_location_coordinates_loaded(location_name, response,
                                         load_geolocation_cache(mem, file))

\* Returns [ret, mem, file, geocoded, loaded]: the returned dict, the cache
\* and the file after the call, whether the Geocoding API was called and
\* whether load_geolocation_cache was.
get_location_coordinates(location_name, response, mem, file) ==
    IF location_name = "" \/ strip(location_name) = ""
       \/ strip(location_name) \in invalid_locations
    THEN [ret |-> NullEntry(location_name), mem |-> mem, file |-> file,
          geocoded |-> FALSE, loaded |-> FALSE]
    ELSE get_location_coordinates_loaded(location_name, response,
                                         load_geolocation_cache(mem, file))

----------------------------------------------------------------------------
(* datetime.strptime, as far as the formats of timestamp_utils.py use it *)

\* A format is a sequence of tokens: a directive ("%Y", "%m", "%d", "%H",
\* "%I", "%M", "%S", "%p"), a blank (whitespace of the format, which matches
\* one or more whitespace characters) or a literal character.
FieldRange ==
    [ Y |-> [lo |-> 1, hi |-> 9999, width |-> 4],
      m |-> [lo |-> 1, hi |-> 12, width |-> 2],
      d |-> [lo |-> 1, hi |-> 31, width |-> 2],
      H |-> [lo |-> 0, hi |-> 23, width |-> 2],
      I |-> [lo |-> 1, hi |-> 12, width |-> 2],
      M |-> [lo |-> 0, hi |-> 59, width |-> 2],
      S |-> [lo |-> 0, hi |-> 61, width |-> 2] ]

NoFields == [Y |-> 1900, m |-> 1, d |-> 1, H |-> 0, I |-> 0, M |-> 0, S |-> 0, p |-> "AM"]

\* the first n characters of s are digits that form a value the field accepts
FieldFits(s, n, f) ==
    /\ Len(s) >= n
    /\ AllDigits(Slice(s, 1, n))
    /\ FieldRange[f].lo <= int(Slice(s, 1, n))
    /\ int(Slice(s, 1, n)) <= FieldRange[f].hi

RECURSIVE strptime_match(_, _, _, _)
RECURSIVE strptime_field(_, _, _, _, _, _)
\* "%Y" takes four digits; the other numeric directives take two digits or,
\* when the rest of the string does not match after two, one
strptime_field(s, fmt, k, acc, f, n) ==
    IF FieldFits(s, n, f) /\ ~IsNone(strptime_match(From(s, n + 1), fmt, k + 1, acc))
    THEN strptime_match(From(s, n + 1), fmt, k + 1,
                        [acc EXCEPT ![f] = int(Slice(s, 1, n))])
    ELSE IF n = 2
    THEN strptime_field(s, fmt, k, acc, f, 1)
    ELSE None

strptime_match(s, fmt, k, acc) ==
    IF k > Len(fmt) THEN (IF s = "" THEN Some(acc) ELSE None)
    ELSE IF fmt[k] = " " THEN
        IF IsSpace(Ch(s, 1)) THEN strptime_match(lstrip(s), fmt, k + 1, acc) ELSE None
    ELSE IF fmt[k] = "%p" THEN
        IF upper(Slice(s, 1, 2)) \in {"AM", "PM"}
        THEN strptime_match(From(s, 3), fmt, k + 1, [acc EXCEPT !.p = upper(Slice(s, 1, 2))])
        ELSE None
    ELSE IF Len(fmt[k]) = 2 THEN
        strptime_field(s, fmt, k, acc, Ch(fmt[k], 2), FieldRange[Ch(fmt[k], 2)].width)
    ELSE IF upper(Ch(s, 1)) = upper(fmt[k])
        THEN strptime_match(From(s, 2), fmt, k + 1, acc)
        ELSE None

IsLeap(y) == (y % 4 = 0 /\ y % 100 # 0) \/ y % 400 = 0

DaysInMonth(y, m) ==
    IF m = 2 THEN (IF IsLeap(y) THEN 29 ELSE 28)
    ELSE IF m \in {4, 6, 9, 11} THEN 30 ELSE 31

\* the datetime a match builds: None (ValueError) when the day does not exist
strptime_result(acc) ==
    IF IsNone(acc) THEN None
    ELSE IF Val(acc).d > DaysInMonth(Val(acc).Y, Val(acc).m) THEN None
    ELSE Some([year |-> Val(acc).Y, month |-> Val(acc).m, day |-> Val(acc).d,
               hour |-> IF Val(acc).I > 0
                        THEN (Val(acc).I % 12) + (IF Val(acc).p = "PM" THEN 12 ELSE 0)
                        ELSE Val(acc).H,
               minute |-> Val(acc).M])

strptime(s, fmt) == strptime_result(strptime_match(s, fmt, 1, NoFields))

\* "for fmt in [...]: try: return strptime(s, fmt) except ValueError: continue"
RECURSIVE first_parse(_, _, _)
first_parse(s, fmts, k) ==
    IF k > Len(fmts) THEN None
    ELSE IF ~IsNone(strptime(s, fmts[k])) THEN strptime(s, fmts[k])
    ELSE first_parse(s, fmts, k + 1)

----------------------------------------------------------------------------
(* Timestamp normalizer: src/src/timestamp_utils.py *)

QATAR_OFFSET_HOURS == 3

\* days from 1970-01-01 to the civil date
days_from_civil_shifted(y, m, d) ==
    (y \div 400) * 146097
    + (y % 400) * 365 + (y % 400) \div 4 - (y % 400) \div 100
    + (153 * (IF m > 2 THEN m - 3 ELSE m + 9) + 2) \div 5 + d - 1
    - 719468

days_from_civil(date) ==
    days_from_civil_shifted(IF date.month <= 2 THEN date.year - 1 ELSE date.year,
                            date.month, date.day)

\* int(date_obj.replace(hour, minute, second=0).timestamp()) for a datetime
\* whose UTC offset is offset_minutes; None stands for the ValueError that
\* replace() raises for an hour outside 0..23
timestamp_at(date_obj, hour, minute, offset_minutes) ==
    IF hour > 23 \/ hour < 0 \/ minute > 59 \/ minute < 0 THEN None
    ELSE Some((days_from_civil(date_obj) * 1440 + hour * 60 + minute - offset_minutes) * 60)

convert_to_qatar_timestamp(date_obj, hour, minute, host) ==
    timestamp_at(date_obj, hour, minute, QATAR_OFFSET_HOURS * 60)

\* int(naive_datetime.timestamp()): a naive datetime is read in the host zone
naive_timestamp(date_obj, hour, minute, host) ==
    timestamp_at(date_obj, hour, minute, host)

TBA_MARKERS == {"TBA", "TBD", "TO BE ANNOUNCED", "TO BE DETERMINED", "N/A"}

TimeFormats12 ==
    << <<"%I", ":", "%M", " ", "%p">>, <<"%I", " ", "%p">>,
       <<"%I", ":", "%M", "%p">>, <<"%I", "%p">> >>

TimeFormats24 == << <<"%H", ":", "%M">>, <<"%H", ":", "%M", ":", "%S">>, <<"%H">> >>

\* int(s) of Python: None stands for ValueError
py_int_unsigned(neg, u) ==
    IF Len(u) > 0 /\ AllDigits(u) THEN Some((IF neg THEN 0 - 1 ELSE 1) * int(u)) ELSE None

py_int_stripped(t) ==
    py_int_unsigned(Ch(t, 1) = "-", IF Ch(t, 1) \in {"-", "+"} THEN From(t, 2) ELSE t)

py_int(s) == py_int_stripped(strip(s))

\* lines 65-73: "H:M" read as two integers, without any range check
parse_time_colon_ints(hour, minute) ==
    IF ~IsNone(hour) /\ ~IsNone(minute) THEN Val(hour) * 60 + Val(minute) ELSE 0

parse_time_colon(parts) ==
    IF Len(parts) = 2 THEN parse_time_colon_ints(py_int(parts[1]), py_int(parts[2])) ELSE 0

parse_time_parsed(time_str, time_obj) ==
    IF ~IsNone(time_obj) THEN Val(time_obj).hour * 60 + Val(time_obj).minute
    ELSE IF contains(time_str, ":") THEN parse_time_colon(split(time_str, ":"))
    ELSE 0

parse_time_upper(time_str) ==
    IF time_str \in TBA_MARKERS THEN 0
    ELSE parse_time_parsed(time_str,
            IF contains(time_str, "AM") \/ contains(time_str, "PM")
            THEN first_parse(time_str, TimeFormats12, 1)
            ELSE first_parse(time_str, TimeFormats24, 1))

\* the argument is an optional string: None or a str
parse_time_to_minutes(time_str) ==
    IF IsNone(time_str) \/ Val(time_str) = "" THEN 0
    ELSE parse_time_upper(upper(strip(Val(time_str))))

DateFormats ==
    << <<"%Y", "-", "%m", "-", "%d">>, <<"%d", "/", "%m", "/", "%Y">>,
       <<"%m", "/", "%d", "/", "%Y">>, <<"%d", "-", "%m", "-", "%Y">>,
       <<"%m", "-", "%d", "-", "%Y">> >>

DateRange(start, end) == [start |-> start, end |-> end]

Or(parsed, kept) == IF IsNone(parsed) THEN kept ELSE parsed

\* lines 106-130: start_date and end_date live across the iterations, so a
\* side that does not parse keeps what an earlier separator gave it
RECURSIVE extract_date_range_seps(_, _, _, _, _)
extract_date_range_parts(date_str, seps, k, start_date, end_date) ==
    IF ~IsNone(start_date) /\ ~IsNone(end_date)
    THEN DateRange(start_date, end_date)
    ELSE extract_date_range_seps(date_str, seps, k + 1, start_date, end_date)

extract_date_range_seps(date_str, seps, k, start_date, end_date) ==
    IF k > Len(seps) THEN DateRange(None, None)
    ELSE IF contains(date_str, seps[k]) /\ Len(split(date_str, seps[k])) = 2
    THEN extract_date_range_parts(date_str, seps, k,
            Or(first_parse(strip(split(date_str, seps[k])[1]), DateFormats, 1), start_date),
            Or(first_parse(strip(split(date_str, seps[k])[2]), DateFormats, 1), end_date))
    ELSE extract_date_range_seps(date_str, seps, k + 1, start_date, end_date)

RangeSeparators == <<" to ", " - ", " until ", " through ">>

extract_date_range_single(date_obj) == DateRange(date_obj, date_obj)

extract_date_range_stripped(date_str) ==
    IF ~contains(date_str, " to ") /\ ~contains(date_str, " - ")
    THEN extract_date_range_single(first_parse(date_str, DateFormats, 1))
    ELSE extract_date_range_seps(date_str, RangeSeparators, 1, None, None)

\* the argument is an optional string
extract_date_range(date_str) ==
    IF IsNone(date_str) \/ Val(date_str) = "" THEN DateRange(None, None)
    ELSE extract_date_range_stripped(strip(Val(date_str)))

\* The regular expressions of extract_time_range_from_complex_string.  Each
\* matcher takes a position of the string and gives the position after the
\* match, or 0 when the pattern does not match there.  The en dash of the
\* class [-–] is outside the model's alphabet.

RECURSIVE skip_space(_, _)
\* \s*
skip_space(s, i) == IF IsSpace(Ch(s, i)) THEN skip_space(s, i + 1) ELSE i

\* \d{1,2}:\d{2}
match_hm(s, i) ==
    IF IsDigit(Ch(s, i)) /\ IsDigit(Ch(s, i + 1)) /\ Ch(s, i + 2) = ":"
       /\ IsDigit(Ch(s, i + 3)) /\ IsDigit(Ch(s, i + 4))
    THEN i + 5
    ELSE IF IsDigit(Ch(s, i)) /\ Ch(s, i + 1) = ":"
            /\ IsDigit(Ch(s, i + 2)) /\ IsDigit(Ch(s, i + 3))
    THEN i + 4
    ELSE 0

\* (?:am|pm) under re.IGNORECASE, at position i
match_meridiem(s, i) == IF lower(Slice(s, i, i + 1)) \in {"am", "pm"} THEN i + 2 ELSE 0

\* X\s*(?:am|pm), where X ended before position i (0: X did not match)
match_then_meridiem(s, i) == IF i = 0 THEN 0 ELSE match_meridiem(s, skip_space(s, i))

\* \d{1,2}:\d{2}\s*(?:am|pm)
match_hm_meridiem(s, i) == match_then_meridiem(s, match_hm(s, i))

\* \d{1,2}\s*(?:am|pm)
match_h_meridiem(s, i) ==
    IF IsDigit(Ch(s, i)) /\ IsDigit(Ch(s, i + 1)) /\ match_then_meridiem(s, i + 2) > 0
    THEN match_then_meridiem(s, i + 2)
    ELSE IF IsDigit(Ch(s, i)) THEN match_then_meridiem(s, i + 1)
    ELSE 0

\* \s*[-–]\s* after position i - 1 (0: the left side did not match)
match_dash(s, i) ==
    IF i > 0 /\ Ch(s, skip_space(s, i)) = "-"
    THEN skip_space(s, skip_space(s, i) + 1)
    ELSE 0

TimeRange(start, end) == [start |-> start, end |-> end]
NoTimeRange == TimeRange(None, None)

\* the groups of a range match that starts at i, has its first group up to
\* e1 - 1, its second group from d and ends at e2 - 1
range_groups(s, i, e1, d, e2) ==
    IF e2 > 0
    THEN TimeRange(Some(strip(Slice(s, i, e1 - 1))), Some(strip(Slice(s, d, e2 - 1))))
    ELSE NoTimeRange

range_12_second(s, i, e1, d) ==
    range_groups(s, i, e1, d, IF d = 0 THEN 0 ELSE match_hm_meridiem(s, d))

range_12_at(s, i, e1) == range_12_second(s, i, e1, match_dash(s, e1))

range_24_second(s, i, e1, d) ==
    range_groups(s, i, e1, d, IF d = 0 THEN 0 ELSE match_hm(s, d))

range_24_at(s, i, e1) == range_24_second(s, i, e1, match_dash(s, e1))

RECURSIVE search_range_12(_, _)
\* re.search(pattern1, time_str, re.IGNORECASE): the leftmost match
search_range_12(s, i) ==
    IF i > Len(s) THEN NoTimeRange
    ELSE IF ~IsNone(range_12_at(s, i, match_hm_meridiem(s, i)).start)
    THEN range_12_at(s, i, match_hm_meridiem(s, i))
    ELSE search_range_12(s, i + 1)

RECURSIVE search_range_24(_, _)
\* re.search(pattern2, time_str)
search_range_24(s, i) ==
    IF i > Len(s) THEN NoTimeRange
    ELSE IF ~IsNone(range_24_at(s, i, match_hm(s, i)).start)
    THEN range_24_at(s, i, match_hm(s, i))
    ELSE search_range_24(s, i + 1)

\* the alternation of time_pattern at position i: the first alternative wins
match_time(s, i) ==
    IF match_hm_meridiem(s, i) > 0 THEN match_hm_meridiem(s, i) ELSE match_h_meridiem(s, i)

RECURSIVE search_time(_, _)
\* re.search(time_pattern, time_str, re.IGNORECASE): group(0).strip(), or None
search_time(s, i) ==
    IF i > Len(s) THEN None
    ELSE IF match_time(s, i) > 0 THEN Some(strip(Slice(s, i, match_time(s, i) - 1)))
    ELSE search_time(s, i + 1)

\* patterns 3, 4 and 5 search the same time_pattern
extract_single_time(time_str, time_match) ==
    IF (contains(lower(time_str), "onwards") \/ contains(lower(time_str), "from"))
       /\ ~IsNone(time_match)
    THEN TimeRange(time_match, None)
    ELSE IF (contains(time_str, "&") \/ contains(time_str, "/")) /\ ~IsNone(time_match)
    THEN TimeRange(time_match, None)
    ELSE IF ~IsNone(time_match) THEN TimeRange(time_match, None)
    ELSE NoTimeRange

extract_time_range_24(time_str, range24) ==
    IF ~IsNone(range24.start) THEN range24
    ELSE extract_single_time(time_str, search_time(time_str, 1))

extract_time_range_12(time_str, range12) ==
    IF ~IsNone(range12.start) THEN range12
    ELSE extract_time_range_24(time_str, search_range_24(time_str, 1))

extract_time_range_stripped(time_str) ==
    extract_time_range_12(time_str, search_range_12(time_str, 1))

\* the argument is an optional string
extract_time_range_from_complex_string(time_str) ==
    IF IsNone(time_str) \/ Val(time_str) = "" THEN NoTimeRange
    ELSE extract_time_range_stripped(strip(Val(time_str)))

----------------------------------------------------------------------------
(* Event records.  An event is a dict: a function from keys to optional      *)
(* values (None is JSON null).                                               *)

\* event.get(key, default)
GetOr(e, key, default) == IF key \in DOMAIN e THEN e[key] ELSE default

\* truth value of an optional string: None and "" are false
Truthy(o) == ~IsNone(o) /\ Val(o) # ""

\* dict(e, key=value, ...): the keys of extra are set, the others kept
Updated(e, extra) ==
    [k \in DOMAIN e \cup DOMAIN extra |-> IF k \in DOMAIN extra THEN extra[k] ELSE e[k]]

\* del e[key] for each key of keys that e has
Without(e, keys) == [k \in DOMAIN e \ keys |-> e[k]]

\* the outcome of a call: a returned value, or an uncaught exception
Returned(v) == [raised |-> FALSE, value |-> v]
Raised == [raised |-> TRUE, value |-> [k \in {} |-> None]]

\* lines 214-338 (and 382-506): the start and end timestamps of an event.
\* A step is [raised, ts]: the timestamp assigned, or the exception raised
\* while computing it.
Step(wanted, ts) ==
    IF ~wanted THEN [raised |-> FALSE, ts |-> None]
    ELSE IF IsNone(ts) THEN [raised |-> TRUE, ts |-> None]
    ELSE [raised |-> FALSE, ts |-> ts]

Stamps(start, end, desc_raises) ==
    [raised |-> start.raised \/ end.raised \/ desc_raises, start |-> start.ts, end |-> end.ts]

NoStamps == [raised |-> FALSE, start |-> None, end |-> None]

RecurringTerms == {"weekdays", "weekends", "sunday to thursday", "friday & saturday"}

\* event['description'].lower() raises AttributeError on a null description
DescriptionRaises(e) == "description" \in DOMAIN e /\ IsNone(e["description"])

IsRecurring(e) ==
    /\ "description" \in DOMAIN e
    /\ ~IsNone(e["description"])
    /\ \E term \in RecurringTerms : contains(lower(Val(e["description"])), term)

\* lines 228-270: the time string held a recognizable time
stamps_enhanced(e, start_date, end_date, start_minutes, end_minutes, has_end, host) ==
    Stamps(
        IF IsRecurring(e) /\ start_minutes > 0
        THEN Step(TRUE, naive_timestamp(start_date, start_minutes \div 60, start_minutes % 60, host))
        ELSE Step(start_minutes > 0,
                  convert_to_qatar_timestamp(start_date, start_minutes \div 60, start_minutes % 60, host)),
        IF IsRecurring(e) /\ end_minutes > 0
        THEN Step(TRUE, convert_to_qatar_timestamp(end_date, end_minutes \div 60, end_minutes % 60, host))
        ELSE Step(has_end /\ end_minutes > 0,
                  convert_to_qatar_timestamp(end_date, end_minutes \div 60, end_minutes % 60, host)),
        DescriptionRaises(e))

\* lines 276-322: "start - end" split on " - "
stamps_split_two(e, start_date, end_date, start_minutes, end_minutes, host) ==
    Stamps(
        IF IsRecurring(e) /\ start_minutes > 0
        THEN Step(TRUE, naive_timestamp(start_date, start_minutes \div 60, start_minutes % 60, host))
        ELSE Step(start_minutes > 0,
                  convert_to_qatar_timestamp(start_date, start_minutes \div 60, start_minutes % 60, host)),
        Step(end_minutes > 0,
             naive_timestamp(end_date, end_minutes \div 60, end_minutes % 60, host)),
        DescriptionRaises(e))

\* lines 324-338: a single time
stamps_split_one(start_date, start_minutes, host) ==
    Stamps(
        Step(start_minutes > 0,
             convert_to_qatar_timestamp(start_date, start_minutes \div 60, start_minutes % 60, host)),
        Step(FALSE, None),
        FALSE)

stamps_split(e, start_date, end_date, time_parts, host) ==
    IF Len(time_parts) = 2
    THEN stamps_split_two(e, start_date, end_date,
                          parse_time_to_minutes(Some(strip(time_parts[1]))),
                          parse_time_to_minutes(Some(strip(time_parts[2]))), host)
    ELSE IF Len(time_parts) = 1
    THEN stamps_split_one(start_date, parse_time_to_minutes(Some(strip(time_parts[1]))), host)
    ELSE NoStamps

stamps_times(e, start_date, end_date, time_str, times, host) ==
    IF Truthy(times.start)
    THEN stamps_enhanced(e, start_date, end_date,
                         parse_time_to_minutes(times.start),
                         IF Truthy(times.end) THEN parse_time_to_minutes(times.end) ELSE 0,
                         Truthy(times.end), host)
    ELSE stamps_split(e, start_date, end_date, split(Val(time_str), " - "), host)

stamps_dates(e, dates, time_str, host) ==
    IF IsNone(dates.start) THEN NoStamps
    ELSE stamps_times(e, Val(dates.start), Val(dates.end), time_str,
                      extract_time_range_from_complex_string(time_str), host)

\* a variant that gives an event with an announced date and a time still to
\* be announced the start of that day
stamps_fields_tba_midnight(e, date_str, time_str, host) ==
    IF Truthy(date_str) /\ ~IsNone(extract_date_range(date_str).start)
    THEN Stamps(Step(TRUE, convert_to_qatar_timestamp(Val(extract_date_range(date_str).start), 0, 0, host)),
                Step(FALSE, None), FALSE)
    ELSE NoStamps

stamps_fields(e, date_str, time_str, host) ==
    IF (Truthy(date_str) /\ upper(Val(date_str)) \in TBA_MARKERS)
       \/ (Truthy(time_str) /\ upper(Val(time_str)) \in TBA_MARKERS)
    THEN NoStamps
    ELSE IF Truthy(date_str) /\ Truthy(time_str)
    THEN stamps_dates(e, extract_date_range(date_str), time_str, host)
    ELSE NoStamps

event_stamps(e, host) ==
    stamps_fields(e, GetOr(e, "date", Some("")), GetOr(e, "time", Some("")), host)

with_stamps(e, stamps) ==
    IF stamps.raised THEN Raised
    ELSE Returned(Updated(e, [startTimestamp |-> stamps.start, endTimestamp |-> stamps.end]))

\* host is the UTC offset of the executing machine, which the function reads
\* through naive datetime objects
convert_datetime_to_timestamps(e, host) ==
    IF DOMAIN e = {} THEN Returned(e) ELSE with_stamps(e, event_stamps(e, host))

\* lines 512-529: the schedule note is cut from the description, date and
\* time are deleted; "'Schedule:' in desc" raises TypeError on a null
clean_description(e) ==
    IF "description" \in DOMAIN e /\ find(Val(e["description"]), "Schedule:", 1) > 1
    THEN Updated(e, [description |->
            Some(rstrip(Slice(Val(e["description"]), 1,
                              find(Val(e["description"]), "Schedule:", 1) - 1)))])
    ELSE e

clean_converted(r) ==
    IF r.raised THEN Raised
    ELSE IF DescriptionRaises(r.value) THEN Raised
    ELSE Returned(Without(clean_description(r.value), {"date", "time"}))

convert_datetime_to_timestamps_clean(e, host) ==
    IF DOMAIN e = {} THEN Returned(e) ELSE clean_converted(with_stamps(e, event_stamps(e, host)))

----------------------------------------------------------------------------
(* generate_event_in_correct_order and the two regular expressions it uses   *)

\* the class [+\d\s\-\(\)]
IsPhoneChar(c) == IsDigit(c) \/ IsSpace(c) \/ c \in {"+", "-", "(", ")"}

\* the end of the run of phone characters from position i on
RECURSIVE phone_run_end(_, _)
phone_run_end(s, i) ==
    IF i <= Len(s) /\ IsPhoneChar(Ch(s, i)) THEN phone_run_end(s, i + 1) ELSE i

\* the last position in from..i whose character is not a newline, 0 if none
RECURSIVE last_not_newline(_, _, _)
last_not_newline(s, i, from) ==
    IF i < from THEN 0
    ELSE IF Ch(s, i) # "\n" THEN i
    ELSE last_not_newline(s, i - 1, from)

\* the position of the newline that ends the line of position i
line_end(s, i) == IF find(s, "\n", i) = 0 THEN Len(s) + 1 ELSE find(s, "\n", i)

\* \s*([^\n]+) at position q, the white space already skipped up to w:
\* the group is the rest of the line; when only white space follows, \s*
\* gives characters back until one that is not a newline is left for the group
capture_line_at(s, q, w) ==
    IF w <= Len(s) THEN Some(Slice(s, w, line_end(s, w) - 1))
    ELSE IF last_not_newline(s, Len(s), q) > 0
    THEN Some(Ch(s, last_not_newline(s, Len(s), q)))
    ELSE None

capture_line(s, q) == capture_line_at(s, q, skip_space(s, q))

\* \s*([+\d\s\-\(\)]+) at position q
capture_phone_at(s, q, w) ==
    IF w <= Len(s) /\ IsPhoneChar(Ch(s, w))
    THEN Some(Slice(s, w, phone_run_end(s, w) - 1))
    ELSE IF w > q THEN Some(Ch(s, w - 1))
    ELSE None

capture_phone(s, q) == capture_phone_at(s, q, skip_space(s, q))

\* the position after "label:" when one of the labels starts at i, else 0
label_end(s, i, labels) ==
    IF \E l \in labels : StartsAt(s, l \o ":", i)
    THEN i + Len(CHOOSE l \in labels : StartsAt(s, l \o ":", i)) + 1
    ELSE 0

\* re.search(r'(?:labels):\s*(group)', s).group(1), None without a match
RECURSIVE search_labelled(_, _, _, _)
search_labelled(s, i, labels, kind) ==
    IF i > Len(s) THEN None
    ELSE IF label_end(s, i, labels) = 0 THEN search_labelled(s, i + 1, labels, kind)
    ELSE IF kind = "line" /\ ~IsNone(capture_line(s, label_end(s, i, labels)))
    THEN capture_line(s, label_end(s, i, labels))
    ELSE IF kind = "phone" /\ ~IsNone(capture_phone(s, label_end(s, i, labels)))
    THEN capture_phone(s, label_end(s, i, labels))
    ELSE search_labelled(s, i + 1, labels, kind)

stripped(o) == IF IsNone(o) THEN None ELSE Some(strip(Val(o)))

LocationLabels == {"Location", "Venue", "Address"}
PhoneLabels == {"Phone", "Tel", "Contact"}

location_description(e) ==
    IF "locationDescription" \in DOMAIN e /\ Truthy(e["locationDescription"])
    THEN e["locationDescription"]
    ELSE IF "description" \in DOMAIN e /\ Truthy(e["description"])
    THEN stripped(search_labelled(Val(e["description"]), 1, LocationLabels, "line"))
    ELSE None

whatsapp_phone(phone, whatsapp) ==
    IF IsNone(whatsapp) THEN stripped(phone)
    ELSE Some("WhatsApp: " \o strip(Val(whatsapp)))

location_phone(e) ==
    IF "locationPhone" \in DOMAIN e /\ Truthy(e["locationPhone"])
    THEN e["locationPhone"]
    ELSE IF "description" \in DOMAIN e /\ Truthy(e["description"])
    THEN whatsapp_phone(search_labelled(Val(e["description"]), 1, PhoneLabels, "phone"),
                        search_labelled(Val(e["description"]), 1, {"WhatsApp"}, "phone"))
    ELSE None

\* the twelve keys of the canonical record, in their order
CanonicalOrder ==
    <<"name", "description", "categoryId", "startTimestamp", "endTimestamp",
      "locationLat", "locationLng", "locationDescription", "locationName",
      "locationPhone", "website", "image">>

CanonicalKeys == {CanonicalOrder[i] : i \in DOMAIN CanonicalOrder}

category_id(e) ==
    IF Truthy(GetOr(e, "categoryId", None)) THEN e["categoryId"]
    ELSE GetOr(e, "category", Some(""))

ordered_value(e, k) ==
    CASE k = "categoryId" -> category_id(e)
      [] k = "locationDescription" -> location_description(e)
      [] k = "locationPhone" -> location_phone(e)
      [] k \in {"name", "description", "locationName", "website"} -> GetOr(e, k, Some(""))
      [] OTHER -> GetOr(e, k, None)

generate_event_in_correct_order(e) ==
    IF DOMAIN e = {} THEN e
    ELSE [k \in CanonicalKeys \cup (DOMAIN e \cap {"date", "time"}) |-> ordered_value(e, k)]

----------------------------------------------------------------------------
(* save_raw_events_with_timestamps: the raw and the processed output         *)

\* f"Schedule: {date_str} {time_str}"
original_schedule(e) == "Schedule: " \o Val(e["date"]) \o " " \o Val(e["time"])

HasSchedule(e) ==
    /\ "description" \in DOMAIN e
    /\ Truthy(GetOr(e, "date", Some("")))
    /\ Truthy(GetOr(e, "time", Some("")))

\* lines 581-584: "original_schedule not in None" raises TypeError
raw_note_raises(e) == HasSchedule(e) /\ IsNone(e["description"])

raw_event(e) ==
    IF HasSchedule(e) /\ ~contains(Val(e["description"]), original_schedule(e))
    THEN Updated(e, [description |->
            Some(Val(e["description"]) \o "\n\n" \o original_schedule(e))])
    ELSE e

raw_events(evs) == [i \in DOMAIN evs |-> raw_event(evs[i])]

convert_events_to_timestamps_clean(evs, host) ==
    [i \in DOMAIN evs |-> convert_datetime_to_timestamps_clean(evs[i], host)]

HasStart(e) == ~IsNone(GetOr(e, "startTimestamp", None))

RECURSIVE valid_events(_)
valid_events(converted_events) ==
    IF converted_events = << >> THEN << >>
    ELSE IF HasStart(Head(converted_events).value)
    THEN <<generate_event_in_correct_order(Head(converted_events).value)>>
             \o valid_events(Tail(converted_events))
    ELSE valid_events(Tail(converted_events))

\* What a call leaves behind: the files it wrote (None: not written) and
\* whether it ended with an exception.
Saved(raised, raw, processed) == [raised |-> raised, raw |-> raw, processed |-> processed]

save_converted(evs, converted_events) ==
    IF \E i \in DOMAIN converted_events : converted_events[i].raised
    THEN Saved(TRUE, Some(raw_events(evs)), None)
    ELSE Saved(FALSE, Some(raw_events(evs)), Some(valid_events(converted_events)))

save_raw_events_with_timestamps(evs, host) ==
    IF evs = << >> THEN Saved(FALSE, None, None)
    ELSE IF \E i \in DOMAIN evs : raw_note_raises(evs[i]) THEN Saved(TRUE, None, None)
    ELSE save_converted(evs, convert_events_to_timestamps_clean(evs, host))

----------------------------------------------------------------------------
(* Deduplication engine: src/src/filters.py *)

\* str(n) of an integer
RECURSIVE str_natural(_)
str_natural(n) ==
    IF n < 10 THEN Ch(Digits, n + 1)
    ELSE str_natural(n \div 10) \o Ch(Digits, (n % 10) + 1)

str(n) == IF n < 0 THEN "-" \o str_natural(0 - n) ELSE str_natural(n)

\* s padded with zeros on the left to width w
RECURSIVE zero_padded(_, _)
zero_padded(s, w) == IF Len(s) >= w THEN s ELSE zero_padded("0" \o s, w)

\* the magnitude of a coordinate (1e-7 degree) rounded to 1e-6 degree; the
\* inputs of the model have no last digit 5, where the rounding of the
\* binary float decides
rounded_micro(magnitude) == (magnitude + 5) \div 10

format_micro(neg, micro) ==
    (IF neg THEN "-" ELSE "") \o str_natural(micro \div Pow10(6)) \o "."
        \o zero_padded(str_natural(micro % Pow10(6)), 6)

\* f"{x:.6f}"
format_6f(x) == format_micro(x < 0, rounded_micro(IF x < 0 THEN 0 - x ELSE x))

IsLowerAlnum(c) == IsDigit(c) \/ \E k \in 1..26 : Ch(Lower, k) = c

\* re.sub(r'[^a-z0-9]+', '', s)
RECURSIVE keep_lower_alnum(_)
keep_lower_alnum(s) ==
    IF Len(s) = 0 THEN ""
    ELSE (IF IsLowerAlnum(Ch(s, 1)) THEN Ch(s, 1) ELSE "") \o keep_lower_alnum(From(s, 2))

\* the argument is an optional string
get_normalized_name(name) ==
    IF ~Truthy(name) THEN "" ELSE keep_lower_alnum(lower(Val(name)))

\* event.get('locationName') or event.get('location') or ''
dedup_location_name(e) ==
    IF Truthy(GetOr(e, "locationName", None)) THEN e["locationName"]
    ELSE IF Truthy(GetOr(e, "location", None)) THEN e["location"]
    ELSE Some("")

HasCoordinates(e) ==
    ~IsNone(GetOr(e, "locationLat", None)) /\ ~IsNone(GetOr(e, "locationLng", None))

key_location(e) ==
    IF HasCoordinates(e)
    THEN format_6f(Val(e["locationLat"])) \o "_" \o format_6f(Val(e["locationLng"]))
    ELSE get_normalized_name(dedup_location_name(e))

\* event.get('date') or ''
dedup_date(e) == IF Truthy(GetOr(e, "date", None)) THEN Val(e["date"]) ELSE ""

group_key(e) ==
    IF ~IsNone(GetOr(e, "startTimestamp", None))
    THEN key_location(e) \o "_" \o str(Val(e["startTimestamp"]))
    ELSE key_location(e) \o "_" \o dedup_date(e)

\* the keys of event_groups, in the order in which the dict received them
RECURSIVE group_keys(_, _)
group_keys(evs, seen) ==
    IF evs = << >> THEN << >>
    ELSE IF group_key(Head(evs)) \in seen THEN group_keys(Tail(evs), seen)
    ELSE <<group_key(Head(evs))>> \o group_keys(Tail(evs), seen \cup {group_key(Head(evs))})

\* event_groups[key]
RECURSIVE group_events(_, _)
group_events(evs, key) ==
    IF evs = << >> THEN << >>
    ELSE IF group_key(Head(evs)) = key THEN <<Head(evs)>> \o group_events(Tail(evs), key)
    ELSE group_events(Tail(evs), key)

\* len(x.get('description', ''))
description_len(e) == Len(Val(GetOr(e, "description", Some(""))))

\* len(None) raises TypeError
description_len_raises(e) == IsNone(GetOr(e, "description", Some("")))

\* sorted(group, key=len of description, reverse=True)[0]: the sort is
\* stable, so the first of the longest descriptions
RECURSIVE best_event(_)
best_event(group) ==
    IF Len(group) = 1 THEN group[1]
    ELSE IF description_len(group[1]) >= description_len(best_event(Tail(group)))
    THEN group[1]
    ELSE best_event(Tail(group))

group_raises(group) ==
    Len(group) > 1 /\ \E i \in DOMAIN group : description_len_raises(group[i])

unique_events(evs, keys) == [i \in DOMAIN keys |-> best_event(group_events(evs, keys[i]))]

deduplicate_groups(evs, keys) ==
    IF \E i \in DOMAIN keys : group_raises(group_events(evs, keys[i])) THEN Raised
    ELSE Returned(unique_events(evs, keys))

intelligent_deduplication(evs) ==
    IF evs = << >> THEN Returned(<< >>) ELSE deduplicate_groups(evs, group_keys(evs, {}))

----------------------------------------------------------------------------
(* Canonical records: ensure_location_fields (src/src/filters.py),           *)
(* add_coordinates_to_events (src/src/app.py) and the key order of           *)
(* generate_event_in_correct_order                                           *)

\* truth value of an optional number: None and 0 are false
TruthyNumber(o) == ~IsNone(o) /\ Val(o) # 0

KeySet(order) == {order[i] : i \in DOMAIN order}

\* the keys of a dict after a function has changed it in place: the keys
\* that are left keep their places, the new ones follow in the order in
\* which the function inserts them
keys_in_place(order, inserted, e) ==
    LET Kept(k) == k \in DOMAIN e
        New(k) == k \in DOMAIN e /\ k \notin KeySet(order)
    IN  SelectSeq(order, Kept) \o SelectSeq(inserted, New)

\* lines 254-262
ensured_category_id(e) ==
    IF "categoryId" \notin DOMAIN e THEN GetOr(e, "category", Some(""))
    ELSE IF "category" \in DOMAIN e /\ Truthy(e["category"]) /\ ~Truthy(e["categoryId"])
    THEN e["category"]
    ELSE e["categoryId"]

\* lines 281-292
ensured_location_description(e) ==
    IF "locationDescription" \in DOMAIN e THEN e["locationDescription"]
    ELSE IF Truthy(GetOr(e, "description", Some("")))
    THEN stripped(search_labelled(Val(e["description"]), 1, LocationLabels, "line"))
    ELSE None

\* lines 295-300
ensured_location_name_or_legacy(e) ==
    IF "locationName" \in DOMAIN e THEN e["locationName"]
    ELSE IF Truthy(GetOr(e, "location", None)) THEN e["location"]
    ELSE Some("")

\* lines 295-300 and 331-334: a record with both coordinates and no name
\* takes the legacy location as its name
ensured_location_name(e) ==
    IF /\ TruthyNumber(GetOr(e, "locationLat", None))
       /\ TruthyNumber(GetOr(e, "locationLng", None))
       /\ ~Truthy(ensured_location_name_or_legacy(e))
       /\ Truthy(GetOr(e, "location", None))
    THEN e["location"]
    ELSE ensured_location_name_or_legacy(e)

\* lines 303-316
ensured_location_phone(e) ==
    IF "locationPhone" \in DOMAIN e THEN e["locationPhone"]
    ELSE IF Truthy(GetOr(e, "description", Some("")))
    THEN whatsapp_phone(search_labelled(Val(e["description"]), 1, PhoneLabels, "phone"),
                        search_labelled(Val(e["description"]), 1, {"WhatsApp"}, "phone"))
    ELSE None

ensured_value(e, k) ==
    CASE k = "categoryId" -> ensured_category_id(e)
      [] k = "locationDescription" -> ensured_location_description(e)
      [] k = "locationName" -> ensured_location_name(e)
      [] k = "locationPhone" -> ensured_location_phone(e)
      [] k = "website" -> IF "website" \in DOMAIN e THEN e["website"]
                          ELSE GetOr(e, "url", Some(""))
      [] k \in {"name", "description"} -> GetOr(e, k, Some(""))
      [] k \in CanonicalKeys -> GetOr(e, k, None)
      [] OTHER -> e[k]

\* the keys the function deletes: location always, url when it moves to website
ensured_deleted(e) ==
    {"location"} \cup (IF "website" \notin DOMAIN e THEN {"url"} ELSE {})

\* ensure_location_fields on one record of the list
ensure_location_fields(e) ==
    [k \in (DOMAIN e \cup CanonicalKeys) \ ensured_deleted(e) |-> ensured_value(e, k)]

\* location_to_geocode = event.get('locationName') or event.get('location')
location_to_geocode(e) ==
    IF Truthy(GetOr(e, "locationName", None)) THEN e["locationName"]
    ELSE GetOr(e, "location", None)

\* re.search(r'Location \(([^,]+), ([^)]+)\) (.+)', s) from position i on:
\* the three groups, or None
old_format_groups(s, comma, paren) ==
    IF /\ comma > 0 /\ StartsAt(s, ", ", comma)
       /\ paren > comma + 2 /\ StartsAt(s, ") ", paren)
       /\ paren + 2 <= Len(s) /\ Ch(s, paren + 2) # "\n"
    THEN Some(<<s, comma, paren>>)
    ELSE None

old_format_at(s, i) ==
    IF find(s, ",", i + 10) <= i + 10 THEN None
    ELSE old_format_groups(s, find(s, ",", i + 10), find(s, ")", find(s, ",", i + 10) + 2))

RECURSIVE old_format_search(_, _)
old_format_search(s, i) ==
    IF find(s, "Location (", i) = 0 THEN None
    ELSE IF ~IsNone(old_format_at(s, find(s, "Location (", i)))
    THEN Some(<<find(s, "Location (", i)>> \o Val(old_format_at(s, find(s, "Location (", i))))
    ELSE old_format_search(s, find(s, "Location (", i) + 1)

\* lines 172-184: the fields taken from the old format "Location (lat, lng) name"
old_format_entry(s, lat, lng, name) ==
    IF IsNone(lat) \/ IsNone(lng) THEN NullEntry(s) ELSE Entry(lat, lng, Some(name))

old_format_fields(s, m) ==
    IF IsNone(m) THEN NullEntry(s)
    ELSE old_format_entry(s, float(Slice(s, Val(m)[1] + 10, Val(m)[3] - 1)),
                          float(Slice(s, Val(m)[3] + 2, Val(m)[4] - 1)),
                          Slice(s, Val(m)[4] + 2, line_end(s, Val(m)[4] + 2) - 1))

\* a variant that leaves a coordinate of the record alone once it is set
located_keep_existing(e, data) ==
    Without(Updated(e, [locationLat |-> IF IsNone(GetOr(e, "locationLat", None))
                                        THEN data.lat ELSE e["locationLat"],
                        locationLng |-> IF IsNone(GetOr(e, "locationLng", None))
                                        THEN data.lng ELSE e["locationLng"],
                        locationName |-> data.name]), {"location"})

\* lines 160-162, 177-194: the three location fields are set, location deleted
located(e, data) ==
    Without(Updated(e, [locationLat |-> data.lat, locationLng |-> data.lng,
                        locationName |-> data.name]), {"location"})

\* One iteration of the loop of add_coordinates_to_events: [event, mem, file],
\* the record, the in-process cache and the cache file after it.
add_coordinates_to_event(e, response, mem, file) ==
    IF ~Truthy(location_to_geocode(e))
    THEN [event |-> located(e, Entry(None, None, None)), mem |-> mem, file |-> file]
    ELSE IF StartsAt(Val(location_to_geocode(e)), "Location (", 1)
    THEN [event |-> located(e, old_format_fields(Val(location_to_geocode(e)),
                                  old_format_search(Val(location_to_geocode(e)), 1))),
          mem |-> mem, file |-> file]
    ELSE LET r == get_location_coordinates(Val(location_to_geocode(e)), response, mem, file)
         IN  [event |-> located(e, r.ret), mem |-> r.mem, file |-> r.file]

\* a variant that drops the date and time it should preserve
ordered_keys_canonical_only(e) == IF DOMAIN e = {} THEN << >> ELSE CanonicalOrder

\* the keys of the record generate_event_in_correct_order builds, in the
\* order of its assignments (lines 672-743)
ordered_keys(e) ==
    IF DOMAIN e = {} THEN << >>
    ELSE CanonicalOrder
            \o (IF "date" \in DOMAIN e THEN <<"date">> ELSE << >>)
            \o (IF "time" \in DOMAIN e THEN <<"time">> ELSE << >>)

----------------------------------------------------------------------------
(* URL extraction: src/src/URL_Extraction.py *)

\* [^)\s]
IsUrlChar(c) == c # "" /\ c # ")" /\ ~IsSpace(c)

Least(S) == CHOOSE n \in S : \A m \in S : n <= m

Greatest(S) == CHOOSE n \in S : \A m \in S : m <= n

\* the end of the run of [^)\s] that starts at i: the first position past it
url_run_end(s, i) == Least({n \in i..(Len(s) + 1) : ~IsUrlChar(Ch(s, n))})

\* the last position of c in s[lo..hi], 0 when there is none
rfind_char(s, c, lo, hi) ==
    IF \E n \in lo..hi : Ch(s, n) = c THEN Greatest({n \in lo..hi : Ch(s, n) = c}) ELSE 0

\* the first position of sub in s at or after i, 0 when there is none
index_of(s, sub, i) ==
    IF \E n \in i..Len(s) : StartsAt(s, sub, n)
    THEN Least({n \in i..Len(s) : StartsAt(s, sub, n)}) ELSE 0

MarhabaPrefix == "https://marhaba.qa/event/"

\* re.findall(r"https://marhaba\.qa/event/[^)\s]+/", s) from position i on:
\* the run after the prefix is given back up to its last slash
RECURSIVE marhaba_findall(_, _)
marhaba_findall(s, i) ==
    LET p == index_of(s, MarhabaPrefix, i)
        q == p + Len(MarhabaPrefix)
        t == rfind_char(s, "/", q + 1, url_run_end(s, q) - 1)
    IN  IF p = 0 THEN << >>
        ELSE IF t = 0 THEN marhaba_findall(s, p + 1)
        ELSE <<Slice(s, p, t)>> \o marhaba_findall(s, t + 1)

\* a variant that appends every URL, already seen or not
unique_in_order_all(urls, seen) == urls

\* lines 24-29: deduplicate while preserving order
RECURSIVE unique_in_order(_, _)
unique_in_order(urls, seen) ==
    IF urls = << >> THEN << >>
    ELSE IF Head(urls) \in seen THEN unique_in_order(Tail(urls), seen)
    ELSE <<Head(urls)>> \o unique_in_order(Tail(urls), seen \cup {Head(urls)})

extract_marhaba_event_urls(markdown_content) ==
    unique_in_order(marhaba_findall(markdown_content, 1), {})

IlqPrefix == "https://www.iloveqatar.net/events/"

\* re.findall(r"https://www\.iloveqatar\.net/events/[^)\s]+", s) from i on
RECURSIVE ilq_findall(_, _)
ilq_findall(s, i) ==
    LET p == index_of(s, IlqPrefix, i)
        q == p + Len(IlqPrefix)
    IN  IF p = 0 THEN << >>
        ELSE IF url_run_end(s, q) = q THEN ilq_findall(s, p + 1)
        ELSE <<Slice(s, p, url_run_end(s, q) - 1)>> \o ilq_findall(s, url_run_end(s, q))

\* the first position of "?" or "#" in s, Len(s) + 1 when there is none
query_start(s, i) ==
    Least({n \in i..(Len(s) + 1) : n > Len(s) \/ Ch(s, n) = "?" \/ Ch(s, n) = "#"})

\* urlparse splits the parameters off the last segment of the path
without_params(path) ==
    LET semi == index_of(path, ";", rfind_char(path, "/", 1, Len(path)) + 1)
    IN  IF semi = 0 THEN path ELSE Slice(path, 1, semi - 1)

\* urlparse(u).path of a URL that starts with https://www.iloveqatar.net/
url_path(u) ==
    LET rest == From(u, Len("https://www.iloveqatar.net") + 1)
    IN  without_params(Slice(rest, 1, query_start(rest, 1) - 1))

NonEmpty(p) == p # ""

\* [p for p in parsed.path.split('/') if p]
path_parts(u) == SelectSeq(split(url_path(u), "/"), NonEmpty)

category_slugs ==
    {"entertainment", "sports", "food-dining", "arts-culture", "night",
     "community", "social-responsibility", "education", "other", "volunteer"}

\* a variant that accepts any second segment
is_detail_url_any_category(u) ==
    /\ Len(path_parts(u)) >= 3
    /\ path_parts(u)[1] = "events"
    /\ \A n \in DOMAIN path_parts(u) : path_parts(u)[n] \notin {"filter", "tag", "tags"}

is_detail_url(u) ==
    /\ Len(path_parts(u)) >= 3
    /\ path_parts(u)[1] = "events"
    /\ \A n \in DOMAIN path_parts(u) : path_parts(u)[n] \notin {"filter", "tag", "tags"}
    /\ path_parts(u)[2] \in category_slugs

RECURSIVE join(_, _)
join(parts, sep) ==
    IF parts = << >> THEN ""
    ELSE IF Len(parts) = 1 THEN parts[1]
    ELSE parts[1] \o sep \o join(Tail(parts), sep)

IsLowerLetter(c) == \E k \in 1..26 : Ch(Lower, k) = c

\* re.search(r'(^|-)group(-|\d|[a-z])', slug)
has_group_marker(slug) ==
    \E n \in 1..Len(slug) :
        /\ StartsAt(slug, "group", n)
        /\ (n = 1 \/ Ch(slug, n - 1) = "-")
        /\ n + 5 <= Len(slug)
        /\ (Ch(slug, n + 5) = "-" \/ IsDigit(Ch(slug, n + 5)) \/ IsLowerLetter(Ch(slug, n + 5)))

FixtureTerms == {"quarter-final", "quarterfinal", "semi-final", "semifinal", "round-of-"}

\* lines 82-93, on the lower-cased slug
is_individual_match_slug(slug) ==
    /\ contains(slug, "u-17") \/ contains(slug, "u17")
    /\ \/ contains(slug, "-vs-")
       \/ has_group_marker(slug)
       \/ \E term \in FixtureTerms : contains(slug, term)

\* a variant that applies the fixture patterns to every slug
is_ilq_u17_individual_match_url_any(u) ==
    /\ Len(path_parts(u)) >= 3
    /\ path_parts(u)[1] = "events"
    /\ LET slug == lower(join(SubSeq(path_parts(u), 3, Len(path_parts(u))), "/"))
       IN  \/ contains(slug, "-vs-")
           \/ has_group_marker(slug)
           \/ \E term \in FixtureTerms : contains(slug, term)

is_ilq_u17_individual_match_url(u) ==
    /\ Len(path_parts(u)) >= 3
    /\ path_parts(u)[1] = "events"
    /\ is_individual_match_slug(lower(join(SubSeq(path_parts(u), 3, Len(path_parts(u))), "/")))

\* line 102, without the test of seen
is_kept_url(u) == is_detail_url(u) /\ ~is_ilq_u17_individual_match_url(u)

extract_ilq_event_urls(markdown_content) ==
    unique_in_order(SelectSeq(ilq_findall(markdown_content, 1), is_kept_url), {})

IsAsciiAlnum(c) ==
    IsDigit(c) \/ IsLowerLetter(c) \/ \E k \in 1..26 : Ch(Upper, k) = c

\* the maximal runs of [A-Za-z0-9] of text from position i on, word being
\* the run read so far
RECURSIVE alnum_runs(_, _, _)
alnum_runs(text, i, word) ==
    IF i > Len(text) THEN (IF word = "" THEN {} ELSE {word})
    ELSE IF IsAsciiAlnum(Ch(text, i)) THEN alnum_runs(text, i + 1, word \o Ch(text, i))
    ELSE (IF word = "" THEN {} ELSE {word}) \cup alnum_runs(text, i + 1, "")

_normalize_tokens(text) == alnum_runs(lower(text), 1, "")

\* (evt.get('name') or '').strip()
candidate_name(evt) ==
    IF Truthy(GetOr(evt, "name", None)) THEN strip(Val(evt["name"])) ELSE ""

overlap(evt, slug_token_set) ==
    Cardinality(_normalize_tokens(candidate_name(evt)) \cap slug_token_set)

\* lines 139-149: [best, best_overlap] after the loop over events[i..]
RECURSIVE best_match(_, _, _, _)
best_match(events_, i, slug_token_set, best) ==
    IF i > Len(events_) THEN best
    ELSE IF candidate_name(events_[i]) # "" /\ overlap(events_[i], slug_token_set) > best.overlap
    THEN best_match(events_, i + 1, slug_token_set,
                    [evt |-> Some(events_[i]), overlap |-> overlap(events_[i], slug_token_set)])
    ELSE best_match(events_, i + 1, slug_token_set, best)

threshold == 2

selected_or_first(events_, best) ==
    IF IsNone(best.evt) \/ best.overlap < threshold THEN Some(events_[1]) ELSE best.evt

\* returns an optional record: None for an empty list
_select_primary_event_by_slug_tokens(events_, slug_tokens) ==
    IF events_ = << >> THEN None
    ELSE selected_or_first(events_,
            best_match(events_, 1, slug_tokens \ {""}, [evt |-> None, overlap |-> 0 - 1]))

\* src/app.py lines 936-946, the post-processing of the records extracted
\* from one detail page: with more than one record the loop runs over the
\* selected dict itself, that is over its keys, and dict(key, url=...) raises
\* ValueError unless the selected dict is empty
primary_with_url(events_, slug_tokens, url) ==
    IF Len(events_) > 1
    THEN (IF DOMAIN Val(_select_primary_event_by_slug_tokens(events_, slug_tokens)) = {}
          THEN Returned(<< >>) ELSE Raised)
    ELSE Returned([n \in DOMAIN events_ |-> Updated(events_[n], [url |-> Some(url)])])

\* src/app.py lines 213-229: extract_events_with_gemini applies the
\* post-processing inside a try block and returns [] when it raises
extract_events_with_gemini(events_, slug_tokens, url) ==
    IF primary_with_url(events_, slug_tokens, url).raised THEN << >>
    ELSE primary_with_url(events_, slug_tokens, url).value

----------------------------------------------------------------------------
(* Inputs of the geolocation model *)

LocationNames == {"", "  ", "TBA", " Venue TBA ", "N/A", "Doha", "Souq"}

OkResponse(lat, lng) == [status |-> "OK", lat |-> lat, lng |-> lng]
NoResponse == [status |-> "none", lat |-> 0, lng |-> 0]

\* two points of Qatar (one on the corner of the box), three points outside it
\* (one just past the northern edge, one west of the box at a latitude of
\* Qatar), an empty result list and a failed request
Responses ==
    { OkResponse(253000000, 515000000),
      OkResponse(245000000, 525000000),
      OkResponse(265000001, 515000000),
      OkResponse(255000000, 495000000),
      OkResponse(407000000, 0 - 740000000),
      [status |-> "ZERO_RESULTS", lat |-> 0, lng |-> 0],
      [status |-> "error", lat |-> 0, lng |-> 0] }

\* what a cache file left by an earlier run or version can hold under "Doha"
DohaValues ==
    { [dict |-> Entry(Some(253000000), Some(515000000), Some("Doha"))],
      [str |-> "25.3|51.5|Doha"],
      [str |-> "Location (25.286106, 51.534817) Doha"],
      [str |-> "n/a|51.5|Doha"],
      [str |-> "25.3|51.5"],
      [dict |-> [lat |-> Some(253000000), lng |-> Some(515000000)]],
      [num |-> 0] }

SouqValues == { [dict |-> Entry(Some(252900000), Some(515300000), Some("Souq"))] }

InitialCacheData ==
    LET doha == {[k \in {"Doha"} |-> v] : v \in DohaValues} \cup {[k \in {} |-> [num |-> 0]]}
        souq == {[k \in {"Souq"} |-> v] : v \in SouqValues} \cup {[k \in {} |-> [num |-> 0]]}
    IN  {[k \in DOMAIN d \cup DOMAIN s |-> IF k \in DOMAIN d THEN d[k] ELSE s[k]] :
            d \in doha, s \in souq}

InitialCacheFiles ==
    {[kind |-> "absent", data |-> [k \in {} |-> [num |-> 0]]],
     [kind |-> "corrupt", data |-> [k \in {} |-> [num |-> 0]]]}
    \cup {[kind |-> "json", data |-> d] : d \in InitialCacheData}

NoCall ==
    [valid |-> FALSE, name |-> "", ret |-> NullEntry(""), geocoded |-> FALSE,
     loaded |-> FALSE, response |-> NoResponse]

----------------------------------------------------------------------------
(* Idle values of the components a specification does not exercise *)

NoEvent == [k \in {} |-> None]
GeoInit ==
    /\ geolocation_cache = None
    /\ op = "init"
    /\ last = NoCall
    /\ prev = NoCall
    /\ written = {}

GeoIdle == GeoInit /\ cache_file = [kind |-> "absent", data |-> [k \in {} |-> [num |-> 0]]]

NotCalled ==
    /\ converted = None
    /\ converted_clean = None
    /\ date_range = None

TimeIdle ==
    /\ host_offset = 0
    /\ event = NoEvent
    /\ NotCalled

NothingSaved ==
    /\ raw_file = None
    /\ processed_file = None
    /\ saved = "idle"

SaveIdle == events = << >> /\ NothingSaved

DedupIdle == dedup_events = << >> /\ deduplicated = None

CanonIdle ==
    /\ canon_event = NoEvent
    /\ canon_order = << >>
    /\ record = NoEvent
    /\ key_order = << >>
    /\ before = [fields |-> NoEvent, keys |-> << >>]
    /\ applied = << >>

UrlIdle == listing_markdown = "" /\ ilq_urls = None /\ marhaba_urls = None

PageIdle ==
    /\ candidates = << >>
    /\ page_slug_tokens = {}
    /\ primary = << >>
    /\ page_events = None

ClockIdle == time_text = None /\ minutes = None

RunIdle ==
    /\ run_pc = "idle"
    /\ all_events = << >>
    /\ interrupted = FALSE
    /\ in_flight = 0
    /\ geocode_index = 0
    /\ stage_log = << >>
    /\ curated_file = None
    /\ final_file = None

ScrapeIdle ==
    /\ scrape_pc = "idle"
    /\ page_number = 0
    /\ collected_event_urls = << >>
    /\ seen_event_urls = {}
    /\ page_log = << >>
    /\ detail_log = << >>
    /\ scrape_result = None

LateIdle == ClockIdle /\ RunIdle /\ ScrapeIdle

StageIdle == DedupIdle /\ CanonIdle /\ UrlIdle /\ PageIdle /\ LateIdle

----------------------------------------------------------------------------
(* Specification of the geolocation cache *)

InitGeo ==
    GeoInit /\ cache_file \in InitialCacheFiles /\ TimeIdle /\ SaveIdle /\ StageIdle

GetLocationCoordinates ==
    \E location_name \in LocationNames, response \in Responses :
      \E r \in {get_location_coordinates(location_name, response, geolocation_cache, cache_file)} :
            /\ geolocation_cache' = r.mem
            /\ cache_file' = r.file
            /\ op' = "get_location_coordinates"
            /\ prev' = last
            /\ last' = [valid |-> TRUE, name |-> location_name, ret |-> r.ret,
                        geocoded |-> r.geocoded, loaded |-> r.loaded,
                        response |-> IF r.geocoded THEN response ELSE NoResponse]
            /\ written' = IF r.geocoded /\ location_name \in DOMAIN Val(r.mem)
                          THEN written \cup {location_name} ELSE written
            /\ UNCHANGED <<time_vars, save_vars, stage_vars>>

\* the process ends and a later run starts: the in-process copy is gone, the
\* cache file stays
Restart ==
    /\ geolocation_cache' = None
    /\ op' = "restart"
    /\ UNCHANGED <<cache_file, last, prev, written, time_vars, save_vars, stage_vars>>

NextGeo == GetLocationCoordinates \/ Restart

SpecGeo == InitGeo /\ [][NextGeo]_vars

----------------------------------------------------------------------------
(* Specification of the timestamp conversion of one event *)

\* UTC, Qatar (UTC+3) and New York (UTC-5)
HostOffsets == {0, QATAR_OFFSET_HOURS * 60, -300}

DateValues ==
    {None, Some(""), Some("2025-03-10"), Some("2025-05-01"), Some("10/03/2025"),
     Some("2025-03-10 to 2025-03-12"), Some("TBA"), Some("tbd"),
     Some("To be announced"), Some("N/A"), Some("soon")}

TimeValues ==
    {Some(""), Some("6:00 PM"), Some("18:00"), Some("18:00 - 20"),
     Some("6:00 PM - 8:00 PM"), Some("18:00 - 24:00"), Some("12:00 AM"),
     Some("10:00 PM - 2:00 AM"), Some("12:00 AM - 2:00 AM"), Some("25:00 - 26:00"),
     Some("TBA"), Some("To Be Determined"), Some("n/a"), Some("late")}

DescriptionValues == {None, Some("Live music"), Some("Open on weekdays")}

\* a field is missing, or holds one of the values
Fields(key, values) == {NoEvent} \cup {[k \in {key} |-> v] : v \in values}

TimeEvents ==
    {Updated(Updated(Updated([name |-> Some("E")], d), t), c) :
        d \in Fields("date", DateValues),
        t \in Fields("time", TimeValues),
        c \in Fields("description", DescriptionValues)}

InitTime ==
    /\ GeoIdle
    /\ StageIdle
    /\ SaveIdle
    /\ host_offset \in HostOffsets
    /\ event \in TimeEvents
    /\ NotCalled

ConvertDatetimeToTimestamps ==
    /\ IsNone(converted)
    /\ converted' = Some(convert_datetime_to_timestamps(event, host_offset))
    /\ UNCHANGED <<geo_vars, save_vars, stage_vars, host_offset, event, converted_clean, date_range>>

ConvertDatetimeToTimestampsClean ==
    /\ IsNone(converted_clean)
    /\ converted_clean' = Some(convert_datetime_to_timestamps_clean(event, host_offset))
    /\ UNCHANGED <<geo_vars, save_vars, stage_vars, host_offset, event, converted, date_range>>

NextTime == ConvertDatetimeToTimestamps \/ ConvertDatetimeToTimestampsClean

SpecTime == InitTime /\ [][NextTime]_vars

----------------------------------------------------------------------------
(* Specification of extract_date_range *)

DateSides ==
    {"2025-03-10", "12/03/2025", "03/14/2025", "15-03-2025", "03-16-2025", "soon"}

DateMarkers == {" to ", " - ", " until ", " through "}

DateStrings ==
    DateSides
    \cup {l \o m \o r : l \in DateSides, m \in DateMarkers, r \in DateSides}
    \cup {"", " 2025-03-10 ", "2025-03-10 to 2025-03-12 - 2025-03-14",
          "2025-03-10 and 2025-03-12", "2025-03-10 to 2025-03-12 to 2025-03-14"}

InitDate ==
    /\ GeoIdle
    /\ StageIdle
    /\ SaveIdle
    /\ host_offset = 0
    /\ event \in {[date |-> Some(d)] : d \in DateStrings}
    /\ NotCalled

ExtractDateRange ==
    /\ IsNone(date_range)
    /\ date_range' = Some(extract_date_range(event["date"]))
    /\ UNCHANGED <<geo_vars, save_vars, stage_vars, host_offset, event, converted, converted_clean>>

NextDate == ExtractDateRange

SpecDate == InitDate /\ [][NextDate]_vars

----------------------------------------------------------------------------
(* Specification of save_raw_events_with_timestamps *)

MaxBatch == 2

SaveEvents ==
    {NoEvent,
     [name |-> Some("A"), date |-> Some("2025-03-10"), time |-> Some("6:00 PM"),
      description |-> Some("Live music\nVenue: Katara\nTel: +974 4000")],
     [name |-> Some("B"), date |-> Some("TBA"), time |-> Some("TBA")],
     [name |-> Some("C"), date |-> Some("2025-03-12"), time |-> Some("18:00 - 24:00"),
      description |-> Some("Late show")],
     [name |-> Some("D"), date |-> Some("2025-03-11"), time |-> Some("7 pm"),
      description |-> None],
     [name |-> Some("E"), date |-> Some("2025-03-11"), time |-> Some("late"),
      description |-> Some("Tel: +974 4000")],
     [name |-> Some("F"), date |-> Some("2025-03-09"), time |-> Some("9:00 AM - 11:00 AM"),
      description |-> Some("Open weekdays\n\nSchedule: 2025-03-09 9:00 AM - 11:00 AM")]}

Batches == UNION {[1..n -> SaveEvents] : n \in 0..MaxBatch}

InitSave ==
    /\ GeoIdle
    /\ StageIdle
    /\ host_offset \in {0, QATAR_OFFSET_HOURS * 60}
    /\ event = NoEvent
    /\ NotCalled
    /\ events \in Batches
    /\ NothingSaved

\* a file the call does not write keeps its content
SaveRawEventsWithTimestamps ==
    /\ saved = "idle"
    /\ \E r \in {save_raw_events_with_timestamps(events, host_offset)} :
            /\ raw_file' = IF IsNone(r.raw) THEN raw_file ELSE r.raw
            /\ processed_file' = IF IsNone(r.processed) THEN processed_file ELSE r.processed
            /\ saved' = IF r.raised THEN "raised" ELSE "returned"
    /\ UNCHANGED <<geo_vars, time_vars, stage_vars, events>>

NextSave == SaveRawEventsWithTimestamps

SpecSave == InitSave /\ [][NextSave]_vars

----------------------------------------------------------------------------
(* Specification of intelligent_deduplication *)

MaxDedup == 3

\* Records as they enter deduplication: two with coordinates that agree to
\* six decimals, records that fall back to the venue name (equal up to case
\* and punctuation, or up to a letter outside a-z), one without a timestamp
\* whose free-text date reads like a timestamp, one with a null description.
DedupRecords ==
    {[name |-> Some("a"), description |-> Some("short"), locationName |-> Some("Doha"),
      locationLat |-> Some(253000000), locationLng |-> Some(515000000),
      startTimestamp |-> Some(1741618800)],
     [name |-> Some("b"), description |-> Some("a longer text"), locationName |-> Some("Doha Port"),
      locationLat |-> Some(253000004), locationLng |-> Some(515000000),
      startTimestamp |-> Some(1741618800)],
     [name |-> Some("c"), description |-> Some("xx"), locationName |-> Some("Katara"),
      locationLat |-> None, locationLng |-> None, startTimestamp |-> Some(1741618800)],
     [name |-> Some("d"), description |-> Some("yy"), locationName |-> Some("KATARA!"),
      locationLat |-> Some(253000000), locationLng |-> None,
      startTimestamp |-> Some(1741618800)],
     [name |-> Some("e"), description |-> Some("zzz"), locationName |-> Some("Katara"),
      locationLat |-> None, locationLng |-> None, startTimestamp |-> None,
      date |-> Some("1741618800")],
     [name |-> Some("f"), description |-> Some("q"), locationName |-> Some("Café"),
      locationLat |-> None, locationLng |-> None, startTimestamp |-> Some(1741618800)],
     [name |-> Some("g"), description |-> Some(""), locationName |-> Some("Caf"),
      locationLat |-> None, locationLng |-> None, startTimestamp |-> Some(1741618800)],
     [name |-> Some("h"), description |-> None, locationName |-> Some("Doha"),
      locationLat |-> Some(253000000), locationLng |-> Some(515000000),
      startTimestamp |-> Some(1741618800)]}

DedupLists == UNION {[1..n -> DedupRecords] : n \in 0..MaxDedup}

InitDedup ==
    /\ GeoIdle
    /\ LateIdle
    /\ TimeIdle
    /\ SaveIdle
    /\ CanonIdle
    /\ UrlIdle
    /\ PageIdle
    /\ dedup_events \in DedupLists
    /\ deduplicated = None

IntelligentDeduplication ==
    /\ IsNone(deduplicated)
    /\ deduplicated' = Some(intelligent_deduplication(dedup_events))
    /\ UNCHANGED <<late_vars, geo_vars, time_vars, save_vars, dedup_events, canon_vars,
                   url_vars, page_vars>>

NextDedup == IntelligentDeduplication

SpecDedup == InitDedup /\ [][NextDedup]_vars

----------------------------------------------------------------------------
(* Properties of the geolocation cache *)

IsCall == op = "get_location_coordinates"
TwoCallsSameName == prev.valid /\ last.valid /\ prev.name = last.name
NullCoordinates(ret) == IsNone(ret.lat) /\ IsNone(ret.lng)
OutOfBox(response) ==
    response.status = "OK"
    /\ ~(245000000 <= response.lat /\ response.lat <= 265000000
         /\ 505000000 <= response.lng /\ response.lng <= 525000000)
InBox(response) == response.status = "OK" /\ ~OutOfBox(response)
FailedResolution(call) == call.geocoded /\ ~InBox(call.response)
MemKeys == IF IsNone(geolocation_cache) THEN {} ELSE DOMAIN Val(geolocation_cache)
FileKeys == IF cache_file.kind = "json" THEN DOMAIN cache_file.data ELSE {}

\* the inputs of LocationNames that are empty, blank or, once trimmed, in the
\* placeholder set
PlaceholderInputs == {"", "  ", "TBA", " Venue TBA ", "N/A"}

C2_PlaceholderSkipsEverything ==
    [][(op' = "get_location_coordinates" /\ last'.name \in PlaceholderInputs)
        => /\ NullCoordinates(last'.ret)
           /\ ~last'.geocoded
           /\ geolocation_cache' = geolocation_cache
           /\ cache_file' = cache_file]_vars

C2_Witness ==
    /\ IsCall /\ last.name = " Venue TBA "
    /\ NullCoordinates(last.ret) /\ ~last.geocoded
    /\ IsNone(geolocation_cache)
    /\ cache_file.kind = "json" /\ "Doha" \in DOMAIN cache_file.data

\* C3: a miss resolved to a point outside the box returns null coordinates
\* and adds no entry for the name in memory or on disk, so the next call with
\* that name calls the resolver again; every entry written by
\* get_location_coordinates has non-null coordinates inside the box.
C3_OutOfBoxNotCached ==
    /\ (last.geocoded /\ OutOfBox(last.response))
         => (NullCoordinates(last.ret) /\ last.name \notin MemKeys /\ last.name \notin FileKeys)
    /\ (TwoCallsSameName /\ prev.geocoded /\ OutOfBox(prev.response)) => last.geocoded
    /\ \A k \in written :
         /\ k \in FileKeys
         /\ "dict" \in DOMAIN cache_file.data[k]
         /\ ~NullCoordinates(cache_file.data[k].dict)
         /\ InBox(OkResponse(Val(cache_file.data[k].dict.lat), Val(cache_file.data[k].dict.lng)))

C3_Witness ==
    /\ IsCall /\ TwoCallsSameName
    /\ prev.geocoded /\ OutOfBox(prev.response) /\ prev.response.lat = 265000001
    /\ last.geocoded /\ InBox(last.response)
    /\ written = {last.name}

\* C4: an in-bounds miss stores the entry under the exact input string and
\* persists the whole cache before returning; whenever the cache is loaded,
\* the cache file holds exactly the in-memory cache (a missing or unreadable
\* file stands for the empty cache).
C4_WriteThrough ==
    /\ ~IsNone(geolocation_cache) =>
         IF cache_file.kind = "json"
         THEN cache_file.data = [k \in MemKeys |-> [dict |-> Val(geolocation_cache)[k]]]
         ELSE MemKeys = {}
    /\ (last.geocoded /\ InBox(last.response)) =>
         /\ last.name \in FileKeys
         /\ cache_file.data[last.name] =
              [dict |-> Entry(Some(last.response.lat), Some(last.response.lng), Some(last.name))]

C4_Witness ==
    /\ IsCall /\ last.geocoded /\ InBox(last.response)
    /\ prev.valid /\ prev.geocoded /\ InBox(prev.response) /\ prev.name # last.name
    /\ Cardinality(FileKeys) = 2

\* what a lookup sees: the in-memory cache, or before it is loaded the
\* entries the file would load as
CacheView(mem, file) ==
    IF ~IsNone(mem) THEN Val(mem)
    ELSE IF file.kind = "json" THEN migrate_old_cache_format(file.data)
    ELSE EmptyCache

KeptAndOwn(old, new, call_op, call) ==
    /\ \A k \in DOMAIN old : k \in DOMAIN new /\ new[k] = old[k]
    /\ \A k \in DOMAIN new \ DOMAIN old :
         call_op = "get_location_coordinates" /\ call.name = k /\ call.geocoded

\* C5: once a key is in the cache with a value, no call changes or removes
\* it, and a key appears only through a miss for that very key.
C5_EntriesPermanent ==
    [][KeptAndOwn(CacheView(geolocation_cache, cache_file),
                  CacheView(geolocation_cache', cache_file'), op', last')]_vars

C5_Witness ==
    /\ IsCall /\ TwoCallsSameName
    /\ prev.geocoded /\ InBox(prev.response)
    /\ ~last.geocoded
    /\ written = {"Doha", "Souq"}

\* C6: on every path the result has the keys lat, lng and name, name equals
\* the input string, and lat/lng are null exactly when resolution failed or
\* was skipped.
C6_ResultEchoesInput ==
    last.valid =>
        /\ DOMAIN last.ret = {"lat", "lng", "name"}
        /\ last.ret.name = Some(last.name)
        /\ NullCoordinates(last.ret) <=> (~last.loaded \/ FailedResolution(last))


----------------------------------------------------------------------------
(* Properties of the timestamp conversion, checked under SpecTime *)

QatarOffset == QATAR_OFFSET_HOURS * 60

\* C7: whatever the UTC offset of the host, convert_datetime_to_timestamps
\* and convert_datetime_to_timestamps_clean produce the timestamps of the
\* resolved date and time at the fixed UTC+3 offset, on every code path:
\* the outcome on any host is the outcome on a host that runs at UTC+3.
C7_FixedOffsetOnEveryPath ==
    /\ ~IsNone(converted) =>
            Val(converted) = convert_datetime_to_timestamps(event, QatarOffset)
    /\ ~IsNone(converted_clean) =>
            Val(converted_clean) = convert_datetime_to_timestamps_clean(event, QatarOffset)

PlaceholderMarkers == {"tba", "tbd", "to be announced", "to be determined", "n/a"}

IsPlaceholder(e, key) ==
    /\ key \in DOMAIN e
    /\ Truthy(e[key])
    /\ lower(Val(e[key])) \in PlaceholderMarkers

BothNull(outcome) ==
    /\ ~outcome.raised
    /\ outcome.value["startTimestamp"] = None
    /\ outcome.value["endTimestamp"] = None

\* C8: when the date or the time of an event is a placeholder marker, in any
\* letter case, convert_datetime_to_timestamps returns the event with
\* startTimestamp and endTimestamp null, whatever the other field and the
\* description hold.
C8_PlaceholderYieldsNull ==
    (~IsNone(converted) /\ (IsPlaceholder(event, "date") \/ IsPlaceholder(event, "time")))
        => BothNull(Val(converted))

\* a call with a date that parses, the time "TBA" and a recurring description
C8_Witness ==
    /\ ~IsNone(converted)
    /\ GetOr(event, "date", None) = Some("2025-05-01")
    /\ GetOr(event, "time", None) = Some("TBA")
    /\ IsRecurring(event)
    /\ BothNull(Val(converted))

----------------------------------------------------------------------------
(* Properties of save_raw_events_with_timestamps, checked under SpecSave *)

Records(file) == IF IsNone(file) THEN << >> ELSE Val(file)

NamesOf(records) == [i \in DOMAIN records |-> GetOr(records[i], "name", None)]

SameButDescription(a, b) ==
    /\ DOMAIN a = DOMAIN b
    /\ \A k \in DOMAIN a \ {"description"} : a[k] = b[k]

\* the conversion of the record gives it a start timestamp
Resolves(e) ==
    /\ ~convert_datetime_to_timestamps_clean(e, host_offset).raised
    /\ HasStart(convert_datetime_to_timestamps_clean(e, host_offset).value)

\* C9: after a call on any batch, the raw output holds every input record,
\* and the processed output holds exactly the records whose computed
\* startTimestamp is not null, in their input order.
C9_TwoTierRetention ==
    saved # "idle" =>
        /\ Len(Records(raw_file)) = Len(events)
        /\ \A i \in DOMAIN events : SameButDescription(Records(raw_file)[i], events[i])
        /\ NamesOf(Records(processed_file)) = NamesOf(SelectSeq(events, Resolves))

----------------------------------------------------------------------------
(* Properties of extract_date_range, checked under SpecDate *)

ParsedDate(s) == first_parse(strip(s), DateFormats, 1)

IsRangeBy(s, m) ==
    /\ Len(split(s, m)) = 2
    /\ ~IsNone(ParsedDate(split(s, m)[1]))
    /\ ~IsNone(ParsedDate(split(s, m)[2]))

RangeBy(s, m) == DateRange(ParsedDate(split(s, m)[1]), ParsedDate(split(s, m)[2]))

Ordered(r) == days_from_civil(Val(r.start)) <= days_from_civil(Val(r.end))

DateRangeContract(s, r) ==
    IF ~IsNone(ParsedDate(s)) THEN r = DateRange(ParsedDate(s), ParsedDate(s))
    ELSE IF \E m \in DateMarkers : IsRangeBy(s, m)
    THEN (\E m \in DateMarkers : IsRangeBy(s, m) /\ r = RangeBy(s, m)) /\ Ordered(r)
    ELSE r = DateRange(None, None)

\* C10: extract_date_range returns (d, d) for a single date in a supported
\* format, the parses of the two sides with start <= end for two supported
\* dates joined by " to ", " - ", " until " or " through ", and (None, None)
\* for every other string.
C10_DateRangeContract ==
    ~IsNone(date_range) => DateRangeContract(Val(event["date"]), Val(date_range))


----------------------------------------------------------------------------
(* Specification of the canonicalization of one record: the three functions *)
(* a record passes through, applied in any sequence of up to MaxStages      *)

MaxStages == 3

BaseEvent == [name |-> Some("x")]

CategoryFields ==
    {[category |-> None],
     [category |-> Some("Music")],
     [categoryId |-> Some(""), category |-> Some("Music")],
     [categoryId |-> None, category |-> None],
     [categoryId |-> Some("Art"), category |-> Some("Music")]}

LocationFields ==
    {[location |-> Some("Souq")],
     [locationName |-> Some("Doha")],
     [locationName |-> None, location |-> Some("Souq")],
     [locationName |-> Some("Location (25.3, 51.5) Old Port")],
     [locationName |-> Some("Location (north, 51.5) Old Port")],
     [locationName |-> Some("Venue TBA")]}

CoordinateFields ==
    {[k \in {} |-> None],
     [locationLat |-> Some(253000000)],
     [locationLng |-> Some(515000000)],
     [locationLat |-> Some(253000000), locationLng |-> Some(515000000)]}

WebsiteFields ==
    {[url |-> Some("http://e")],
     [website |-> Some(""), url |-> Some("http://e")],
     [website |-> Some("http://w"), url |-> Some("http://e")]}

DescriptionFields ==
    {[description |-> Some("Venue: Katara\nTel: +974 4000"), date |-> Some("2025-03-10")],
     [description |-> Some("WhatsApp: 5000"), locationPhone |-> Some(""),
      locationDescription |-> None, time |-> Some("6:00 PM")],
     [description |-> None, locationPhone |-> None],
     [description |-> Some("Tel: +974 4000\nWhatsApp: 5000")],
     [description |-> Some("Venue: Katara\nAddress: Corniche\nContact: 4400 Tel: 4000")]}

\* loosely-typed records: each varies one group of fields of the base
\* record; the empty record; a record with every legacy field
CanonEvents ==
    {NoEvent, BaseEvent,
     [name |-> Some("y"), category |-> Some("Music"), location |-> Some("Souq"),
      url |-> Some("http://e"), locationLat |-> Some(253000000),
      locationLng |-> Some(515000000), description |-> Some("Address: Corniche")]}
    \cup {Updated(BaseEvent, f) : f \in CategoryFields \cup WebsiteFields \cup DescriptionFields}
    \cup {Updated(Updated(BaseEvent, l), c) : l \in LocationFields, c \in CoordinateFields}
    \cup {Updated(BaseEvent, c) : c \in CoordinateFields}

\* an order of the keys an extractor may emit, unlike the canonical one
ExtractorOrder ==
    <<"image", "website", "url", "time", "date", "locationPhone", "location",
      "locationName", "locationDescription", "locationLng", "locationLat",
      "endTimestamp", "startTimestamp", "category", "categoryId", "description", "name">>

Reverse(seq) == [i \in DOMAIN seq |-> seq[Len(seq) + 1 - i]]

KeysOfIn(e, order) == LET Has(k) == k \in DOMAIN e IN SelectSeq(order, Has)

CanonResponses ==
    { OkResponse(253000000, 515000000),
      OkResponse(407000000, 0 - 740000000),
      [status |-> "error", lat |-> 0, lng |-> 0] }

InitCanon ==
    /\ GeoIdle
    /\ LateIdle
    /\ TimeIdle
    /\ SaveIdle
    /\ DedupIdle
    /\ UrlIdle
    /\ PageIdle
    /\ canon_event \in CanonEvents
    /\ canon_order \in {KeysOfIn(canon_event, ExtractorOrder),
                        KeysOfIn(canon_event, Reverse(ExtractorOrder))}
    /\ record = canon_event
    /\ key_order = canon_order
    /\ before = [fields |-> NoEvent, keys |-> << >>]
    /\ applied = << >>

Applies(function) ==
    /\ Len(applied) < MaxStages
    /\ applied' = Append(applied, function)
    /\ before' = [fields |-> record, keys |-> key_order]
    /\ UNCHANGED <<late_vars, op, last, prev, written, time_vars, save_vars, dedup_vars,
                   canon_event, canon_order, url_vars, page_vars>>

AddCoordinatesToEvents ==
    \E response \in CanonResponses :
      \E r \in {add_coordinates_to_event(record, response, geolocation_cache, cache_file)} :
        /\ Applies("add_coordinates_to_events")
        /\ record' = r.event
        /\ key_order' = keys_in_place(key_order,
                            <<"locationLat", "locationLng", "locationName">>, r.event)
        /\ geolocation_cache' = r.mem
        /\ cache_file' = r.file

EnsureLocationFields ==
    \E r \in {ensure_location_fields(record)} :
        /\ Applies("ensure_location_fields")
        /\ record' = r
        /\ key_order' = keys_in_place(key_order, CanonicalOrder, r)
        /\ UNCHANGED <<geolocation_cache, cache_file>>

GenerateEventInCorrectOrder ==
    /\ Applies("generate_event_in_correct_order")
    /\ record' = generate_event_in_correct_order(record)
    /\ key_order' = IF DOMAIN record = {} THEN key_order ELSE ordered_keys(record)
    /\ UNCHANGED <<geolocation_cache, cache_file>>

NextCanon == AddCoordinatesToEvents \/ EnsureLocationFields \/ GenerateEventInCorrectOrder

SpecCanon == InitCanon /\ [][NextCanon]_vars

----------------------------------------------------------------------------
(* Specification of the URL extractors on the text of a listing page *)

MaxLinks == 2

\* links of a listing page: two event pages of which one extends the address
\* of the other, a tournament page and one of its fixtures, a match that is
\* not of the tournament, a semi-final and a group of the tournament, a tag
\* page, a category page, a page outside the categories, and two Marhaba
\* pages of which one extends the other
Links ==
    { IlqPrefix \o "sports/expo",
      IlqPrefix \o "sports/expo-2?ref=home",
      IlqPrefix \o "sports/fifa-u17-qatar",
      IlqPrefix \o "sports/u-17-team-a-vs-team-b",
      IlqPrefix \o "night/team-a-vs-team-b",
      IlqPrefix \o "sports/u17-semifinal-1",
      IlqPrefix \o "sports/U17-Group-A",
      IlqPrefix \o "sports/tag/expo",
      IlqPrefix \o "sports",
      IlqPrefix \o "blog/expo",
      MarhabaPrefix \o "expo/",
      MarhabaPrefix \o "expo/gallery/photo" }

\* the markdown of a list of links
RECURSIVE markdown_of(_)
markdown_of(links) ==
    IF links = << >> THEN ""
    ELSE "[x](" \o Head(links) \o ")\n" \o markdown_of(Tail(links))

LinkLists == UNION {[1..n -> Links] : n \in 0..MaxLinks}

InitUrl ==
    /\ GeoIdle
    /\ LateIdle
    /\ TimeIdle
    /\ SaveIdle
    /\ DedupIdle
    /\ CanonIdle
    /\ PageIdle
    /\ listing_markdown \in {markdown_of(links) : links \in LinkLists}
    /\ ilq_urls = None
    /\ marhaba_urls = None

ExtractIlqEventUrls ==
    /\ IsNone(ilq_urls)
    /\ ilq_urls' = Some(extract_ilq_event_urls(listing_markdown))
    /\ UNCHANGED <<late_vars, geo_vars, time_vars, save_vars, dedup_vars, canon_vars, page_vars,
                   listing_markdown, marhaba_urls>>

ExtractMarhabaEventUrls ==
    /\ IsNone(marhaba_urls)
    /\ marhaba_urls' = Some(extract_marhaba_event_urls(listing_markdown))
    /\ UNCHANGED <<late_vars, geo_vars, time_vars, save_vars, dedup_vars, canon_vars, page_vars,
                   listing_markdown, ilq_urls>>

NextUrl == ExtractIlqEventUrls \/ ExtractMarhabaEventUrls

SpecUrl == InitUrl /\ [][NextUrl]_vars

----------------------------------------------------------------------------
(* Specification of the selection of the primary record of a detail page *)

MaxCandidates == 3

\* records extracted from the page of "qatar-expo-2025" or of
\* "doha-jazz-night": names that share three, two, one or no token with a
\* slug, two of them sharing as many, and a record without a name
Candidates ==
    {[name |-> Some("Qatar Expo 2025")],
     [name |-> Some("Expo 2025: Qatar")],
     [name |-> Some("Expo Doha 2025")],
     [name |-> Some("Doha Jazz Night")],
     [name |-> Some("  ")]}

Slugs == {"qatar-expo-2025", "doha-jazz-night"}

PageUrl == "https://www.iloveqatar.net/events/entertainment/page"

InitPage ==
    /\ GeoIdle
    /\ LateIdle
    /\ TimeIdle
    /\ SaveIdle
    /\ DedupIdle
    /\ CanonIdle
    /\ UrlIdle
    /\ candidates \in UNION {[1..n -> Candidates] : n \in 0..MaxCandidates}
    /\ page_slug_tokens \in {_normalize_tokens(slug) : slug \in Slugs}
    /\ primary = << >>
    /\ page_events = None

SelectPrimaryEventBySlugTokens ==
    /\ primary = << >>
    /\ primary' = <<_select_primary_event_by_slug_tokens(candidates, page_slug_tokens)>>
    /\ UNCHANGED <<late_vars, geo_vars, time_vars, save_vars, dedup_vars, canon_vars, url_vars,
                   candidates, page_slug_tokens, page_events>>

ExtractEventsWithGemini ==
    /\ IsNone(page_events)
    /\ page_events' = Some(extract_events_with_gemini(candidates, page_slug_tokens, PageUrl))
    /\ UNCHANGED <<late_vars, geo_vars, time_vars, save_vars, dedup_vars, canon_vars, url_vars,
                   candidates, page_slug_tokens, primary>>

NextPage == SelectPrimaryEventBySlugTokens \/ ExtractEventsWithGemini

SpecPage == InitPage /\ [][NextPage]_vars

----------------------------------------------------------------------------
(* Properties of intelligent_deduplication, checked under SpecDedup *)

Positions(evs, key) == {i \in DOMAIN evs : group_key(evs[i]) = key}

Min(S) == CHOOSE i \in S : \A j \in S : i <= j

\* length of the description as the claim reads it: a record without a
\* description text has the shortest one
LengthOfDescription(e) ==
    IF IsNone(GetOr(e, "description", None)) THEN 0 ELSE Len(Val(e["description"]))

Longest(evs, S) ==
    {i \in S : \A j \in S : LengthOfDescription(evs[j]) <= LengthOfDescription(evs[i])}

\* the record the claim keeps for a group: the first of its longest ones
Representative(evs, key) == evs[Min(Longest(evs, Positions(evs, key)))]

Survivors(out, key) == {i \in DOMAIN out : group_key(out[i]) = key}

\* C11: after deduplication of any list, every group has exactly one
\* survivor, and it is the record of the group with the longest description,
\* the first encountered among equally long ones.
C11_LongestFirstSurvives ==
    deduplicated # None =>
        /\ ~Val(deduplicated).raised
        /\ \A i \in DOMAIN dedup_events :
              \E j \in DOMAIN Val(deduplicated).value :
                  /\ Survivors(Val(deduplicated).value, group_key(dedup_events[i])) = {j}
                  /\ Val(deduplicated).value[j] =
                         Representative(dedup_events, group_key(dedup_events[i]))

\* keys of a list in order of first appearance
FirstAppearances(evs) ==
    [n \in 1..Cardinality({group_key(evs[i]) : i \in DOMAIN evs}) |->
        group_key(evs[CHOOSE i \in DOMAIN evs :
            /\ Positions(evs, group_key(evs[i])) \cap 1..(i - 1) = {}
            /\ Cardinality({group_key(evs[j]) : j \in 1..i}) = n])]

KeysOf(evs) == [i \in DOMAIN evs |-> group_key(evs[i])]

\* C12: the output of deduplication has one record per distinct grouping
\* key, each an unmodified input record, in order of first appearance of the
\* key, and deduplicating the output again returns it unchanged.
C12_OutputShape ==
    deduplicated # None =>
        /\ ~Val(deduplicated).raised
        /\ KeysOf(Val(deduplicated).value) = FirstAppearances(dedup_events)
        /\ \A j \in DOMAIN Val(deduplicated).value :
              \E i \in DOMAIN dedup_events : Val(deduplicated).value[j] = dedup_events[i]
        /\ intelligent_deduplication(Val(deduplicated).value) =
               Returned(Val(deduplicated).value)

\* characters that are neither letters nor digits in the venue names
IsPunctuation(c) ==
    \E p \in {" ", "!", "?", ".", ",", "-", "_", "'", "&", "(", ")", "/", ":", ";"} : c = p

RECURSIVE WithoutPunctuation(_)
WithoutPunctuation(s) ==
    IF s = "" THEN ""
    ELSE (IF IsPunctuation(Ch(s, 1)) THEN "" ELSE Slice(s, 1, 1))
             \o WithoutPunctuation(From(s, 2))

\* location component of the claim: the coordinate pair rounded to six
\* decimals when both are non-null, else the folded venue name
LocationComponent(e) ==
    IF ~IsNone(GetOr(e, "locationLat", None)) /\ ~IsNone(GetOr(e, "locationLng", None))
    THEN [kind |-> "coordinates",
          at |-> <<format_6f(Val(e["locationLat"])), format_6f(Val(e["locationLng"]))>>]
    ELSE [kind |-> "name",
          at |-> <<WithoutPunctuation(lower(IF IsNone(GetOr(e, "locationName", None))
                                            THEN "" ELSE Val(e["locationName"])))>>]

\* temporal component of the claim: the start timestamp when non-null,
\* else the raw date text
TemporalComponent(e) ==
    IF ~IsNone(GetOr(e, "startTimestamp", None))
    THEN [kind |-> "startTimestamp", at |-> str(Val(e["startTimestamp"]))]
    ELSE [kind |-> "date", at |-> IF IsNone(GetOr(e, "date", None)) THEN "" ELSE Val(e["date"])]

SameGroupByClaim(a, b) ==
    /\ LocationComponent(a) = LocationComponent(b)
    /\ TemporalComponent(a) = TemporalComponent(b)

\* C13: two records fall into the same group exactly when they agree on the
\* location component and on the temporal component.
C13_GroupingKey ==
    deduplicated # None =>
        \A i, j \in DOMAIN dedup_events :
            (group_key(dedup_events[i]) = group_key(dedup_events[j]))
                <=> SameGroupByClaim(dedup_events[i], dedup_events[j])


----------------------------------------------------------------------------
(* Properties of the canonical record, checked under SpecCanon *)

LastApplied == applied[Len(applied)]

AppliedTwice(function) ==
    /\ Len(applied) >= 2
    /\ applied[Len(applied)] = function
    /\ applied[Len(applied) - 1] = function

\* C14: applying generate_event_in_correct_order to its own result changes
\* neither a field value nor the order of the fields.
C14_Idempotent ==
    AppliedTwice("generate_event_in_correct_order") =>
        /\ record = before.fields
        /\ key_order = before.keys

LegacyNames == [category |-> "categoryId", location |-> "locationName", url |-> "website"]

Canonicalizers == {"ensure_location_fields", "generate_event_in_correct_order"}

\* the value a record carried under a legacy name without the canonical one
Carried(e, legacy) ==
    /\ legacy \in DOMAIN e
    /\ ~IsNone(e[legacy])
    /\ LegacyNames[legacy] \notin DOMAIN e

\* C15: after ensure_location_fields, and after
\* generate_event_in_correct_order, the record has none of the keys category,
\* location, url, and a legacy value the input carried without the canonical
\* field is found under the canonical name.
C15_LegacyFolded ==
    (applied # << >> /\ LastApplied \in Canonicalizers) =>
        /\ DOMAIN record \cap DOMAIN LegacyNames = {}
        /\ \A legacy \in DOMAIN LegacyNames :
              Carried(before.fields, legacy) =>
                  GetOr(record, LegacyNames[legacy], None) = before.fields[legacy]

IsCanonical(k) == k \in CanonicalKeys

\* the order of the data model as the specification lists it
DataModelOrder ==
    <<"name", "description", "categoryId", "startTimestamp", "endTimestamp",
      "locationLat", "locationLng", "locationName", "locationDescription",
      "locationPhone", "website", "image">>

Emitted == applied # << >> /\ LastApplied = "generate_event_in_correct_order"

\* C16 as stated: a record emitted by generate_event_in_correct_order lists
\* its canonical fields in the order name, description, categoryId,
\* startTimestamp, endTimestamp, locationLat, locationLng, locationName,
\* locationDescription, locationPhone, website, image.
C16_DataModelOrder ==
    (Emitted /\ DOMAIN before.fields # {}) =>
        SelectSeq(key_order, IsCanonical) = DataModelOrder

\* the order in which the function assigns the fields
AssignedOrder ==
    <<"name", "description", "categoryId", "startTimestamp", "endTimestamp",
      "locationLat", "locationLng", "locationDescription", "locationName",
      "locationPhone", "website", "image">>

PreservedOrder ==
    (IF "date" \in DOMAIN before.fields THEN <<"date">> ELSE << >>)
        \o (IF "time" \in DOMAIN before.fields THEN <<"time">> ELSE << >>)

\* C16: a record emitted by generate_event_in_correct_order from a non-empty
\* record lists locationDescription before locationName: its keys are name,
\* description, categoryId, startTimestamp, endTimestamp, locationLat,
\* locationLng, locationDescription, locationName, locationPhone, website,
\* image, then date and time when the input has them, whatever the key order
\* of the input; an empty record is returned as it is.
C16_AssignedOrder ==
    Emitted =>
        IF DOMAIN before.fields = {}
        THEN record = before.fields /\ key_order = before.keys
        ELSE key_order = AssignedOrder \o PreservedOrder

\* an input in another key order, with a date, has been put in order
C16_Witness ==
    /\ applied = <<"generate_event_in_correct_order">>
    /\ "date" \in DOMAIN canon_event
    /\ "description" \in DOMAIN canon_event
    /\ canon_order # SelectSeq(key_order, LAMBDA k : k \in DOMAIN canon_event)
    /\ key_order = AssignedOrder \o <<"date">>

Passed(function) == \E i \in DOMAIN applied : applied[i] = function

Paired(e) ==
    IsNone(GetOr(e, "locationLat", None)) <=> IsNone(GetOr(e, "locationLng", None))

----------------------------------------------------------------------------
(* Properties of the URL extractors, checked under SpecUrl *)

FirstIndex(seq, x) == Min({n \in DOMAIN seq : seq[n] = x})

\* out holds matches only, each once, in the order of their first match
UniqueInOrderOf(out, matches, text) ==
    /\ \A i, j \in DOMAIN out : i # j => out[i] # out[j]
    /\ \A i \in DOMAIN out :
          /\ index_of(text, out[i], 1) > 0
          /\ \E n \in DOMAIN matches : matches[n] = out[i]
    /\ \A i, j \in DOMAIN out :
          i < j => FirstIndex(matches, out[i]) < FirstIndex(matches, out[j])

\* C18: for every text, each extractor returns no URL twice, only URLs that
\* occur in the text, and in the order of their first occurrence, an
\* occurrence of a URL being a match of the extractor's pattern in the text.
C18_UniqueInOrder ==
    /\ ilq_urls # None =>
          UniqueInOrderOf(Val(ilq_urls), ilq_findall(listing_markdown, 1), listing_markdown)
    /\ marhaba_urls # None =>
          UniqueInOrderOf(Val(marhaba_urls), marhaba_findall(listing_markdown, 1),
                          listing_markdown)

\* a page that links the same event twice has been read by both extractors
C18_Witness ==
    /\ ilq_urls = Some(<<IlqPrefix \o "sports/expo">>)
    /\ marhaba_urls = Some(<< >>)
    /\ Len(ilq_findall(listing_markdown, 1)) = 2

Slug(u) == lower(join(SubSeq(path_parts(u), 3, Len(path_parts(u))), "/"))

ReferencesU17(slug) == contains(slug, "u-17") \/ contains(slug, "u17")

RoundKeywords == {"quarter-final", "quarterfinal", "semi-final", "semifinal", "round-of-"}

LooksLikeFixture(slug) ==
    \/ contains(slug, "-vs-")
    \/ has_group_marker(slug)
    \/ \E keyword \in RoundKeywords : contains(slug, keyword)

MembershipRule(u) ==
    /\ Len(path_parts(u)) >= 3
    /\ path_parts(u)[1] = "events"
    /\ path_parts(u)[2] \in category_slugs
    /\ \A n \in DOMAIN path_parts(u) : path_parts(u)[n] \notin {"filter", "tag", "tags"}
    /\ ~(ReferencesU17(Slug(u)) /\ LooksLikeFixture(Slug(u)))

Returns(out, u) == \E i \in DOMAIN out : out[i] = u

\* C19: a matched iloveqatar.net URL is returned exactly when its path has
\* at least three segments, the first being events, the second a known
\* category and none being filter, tag or tags, and it is not a fixture of
\* the U-17 tournament; a slug that looks like a fixture is excluded only
\* when it references u-17 or u17.
C19_MembershipRule ==
    ilq_urls # None =>
        \A n \in DOMAIN ilq_findall(listing_markdown, 1) :
            Returns(Val(ilq_urls), ilq_findall(listing_markdown, 1)[n])
                <=> MembershipRule(ilq_findall(listing_markdown, 1)[n])

\* the page of the tournament is kept, its fixture is not, and a match of
\* another competition is kept
C19_Witness ==
    \/ /\ ilq_urls = Some(<<IlqPrefix \o "sports/fifa-u17-qatar">>)
       /\ index_of(listing_markdown, IlqPrefix \o "sports/u-17-team-a-vs-team-b", 1) > 0
    \/ /\ ilq_urls = Some(<<IlqPrefix \o "night/team-a-vs-team-b">>)
       /\ index_of(listing_markdown, IlqPrefix \o "sports/u-17-team-a-vs-team-b", 1) > 0

----------------------------------------------------------------------------
(* Properties of the primary record of a detail page, checked under SpecPage *)

Shared(evt) == Cardinality(_normalize_tokens(candidate_name(evt)) \cap page_slug_tokens)

Leaders ==
    {i \in DOMAIN candidates :
        \A j \in DOMAIN candidates : Shared(candidates[j]) <= Shared(candidates[i])}

\* the record the claim selects: the single candidate with the highest
\* overlap when that is at least 2, else the first candidate
ClaimedPrimary ==
    IF Cardinality(Leaders) = 1 /\ Shared(candidates[Min(Leaders)]) >= 2
    THEN candidates[Min(Leaders)]
    ELSE candidates[1]

\* C20: from the candidates of a page, the function selects the one whose
\* name shares the most tokens with the slug if that overlap is at least 2
\* and no other candidate has it, else the first candidate; a page with more
\* than one candidate contributes exactly that record.
C20_PrimarySelected ==
    /\ (primary # << >> /\ candidates # << >>) => primary[1] = Some(ClaimedPrimary)
    /\ (page_events # None /\ Len(candidates) > 1) =>
          /\ Len(Val(page_events)) = 1
          /\ Without(Val(page_events)[1], {"url"}) = ClaimedPrimary

----------------------------------------------------------------------------
(* Specification of parse_time_to_minutes *)

ClockHours == {"0", "9", "12", "13", "23", "24", "25", "-1"}

ClockMinutes == {"00", "30", "59", "60", "75"}

ClockHours12 == {"1", "11", "12", "13"}

Meridiems == {" AM", " PM", "am", "pm"}

\* 24-hour and 12-hour clock texts, with hours and minutes inside and
\* outside the clock, and texts that are no time at all
TimeTexts ==
    {None, Some(""), Some("TBA"), Some("late"), Some("18"), Some("24"),
     Some("18:00:30"), Some(" 6:00 pm "), Some("1:2:3"), Some("a:b"), Some("7:xx")}
    \cup {Some(h \o ":" \o m) : h \in ClockHours, m \in ClockMinutes}
    \cup {Some(h \o p) : h \in ClockHours12, p \in Meridiems}
    \cup {Some(h \o ":30" \o p) : h \in ClockHours12, p \in Meridiems}

InitClock ==
    /\ GeoIdle
    /\ TimeIdle
    /\ SaveIdle
    /\ DedupIdle
    /\ CanonIdle
    /\ UrlIdle
    /\ PageIdle
    /\ RunIdle
    /\ ScrapeIdle
    /\ time_text \in TimeTexts
    /\ minutes = None

ParseTimeToMinutes ==
    /\ IsNone(minutes)
    /\ minutes' = Some(parse_time_to_minutes(time_text))
    /\ UNCHANGED <<geo_vars, time_vars, save_vars, dedup_vars, canon_vars, url_vars,
                   page_vars, run_vars, scrape_vars, time_text>>

NextClock == ParseTimeToMinutes

SpecClock == InitClock /\ [][NextClock]_vars

----------------------------------------------------------------------------
(* Properties of parse_time_to_minutes *)

MinutesPerDay == 24 * 60

\* Claim C28: for every string the result of parse_time_to_minutes lies in
\* 0..1439, so that result div 60 is an hour of 0..23 and result mod 60 a
\* minute of 0..59.
C28_ClockRange ==
    ~IsNone(minutes) =>
        /\ Val(minutes) \in 0..(MinutesPerDay - 1)
        /\ Val(minutes) \div 60 \in 0..23
        /\ Val(minutes) % 60 \in 0..59

----------------------------------------------------------------------------
(* Further properties of the timestamp conversion *)

\* what a conversion computed: the two timestamps, or the exception
StampsOf(outcome) ==
    IF outcome.raised THEN <<"raised">>
    ELSE <<outcome.value["startTimestamp"], outcome.value["endTimestamp"]>>

\* the same record with a description that holds no recurring-schedule keyword
PlainDescription == Some("Live music")

WithPlainDescription(e) == Updated(e, [description |-> PlainDescription])

\* Claim C25: on every host, an event whose description holds one of the
\* recurring-schedule keywords gets the start and end timestamps that the
\* same date and time get with a description without these keywords.
C25_RecurringKeywordsNeutral ==
    IsRecurring(event) =>
        /\ ~IsNone(converted) =>
              StampsOf(Val(converted))
                  = StampsOf(convert_datetime_to_timestamps(WithPlainDescription(event), host_offset))
        /\ ~IsNone(converted_clean) =>
              StampsOf(Val(converted_clean))
                  = StampsOf(convert_datetime_to_timestamps_clean(WithPlainDescription(event), host_offset))

\* an outcome that carries an end timestamp
HasEnd(outcome) ==
    ~outcome.raised /\ ~IsNone(GetOr(outcome.value, "endTimestamp", None))

StartsBeforeEnd(outcome) ==
    /\ ~IsNone(outcome.value["startTimestamp"])
    /\ Val(outcome.value["startTimestamp"]) <= Val(outcome.value["endTimestamp"])

\* Claim C29: whenever a conversion sets endTimestamp to a non-null value,
\* startTimestamp is non-null as well and not later than endTimestamp.
C29_StartNotAfterEnd ==
    /\ (~IsNone(converted) /\ HasEnd(Val(converted))) => StartsBeforeEnd(Val(converted))
    /\ (~IsNone(converted_clean) /\ HasEnd(Val(converted_clean)))
            => StartsBeforeEnd(Val(converted_clean))

----------------------------------------------------------------------------
(* Further properties of save_raw_events_with_timestamps *)

\* the input records a processed record can have been derived from
SourcesOf(r) ==
    {j \in DOMAIN events : GetOr(events[j], "name", None) = GetOr(r, "name", None)}

SameDescription(r, e) ==
    "description" \in DOMAIN e => GetOr(r, "description", None) = e["description"]

\* Claim C24: every record of the processed file has no date and no time
\* field, carries startTimestamp and endTimestamp, and has the description
\* of the input record it was derived from, whatever that text contains.
C24_ProcessedRecords ==
    saved # "idle" =>
        \A i \in DOMAIN Records(processed_file) :
            /\ DOMAIN Records(processed_file)[i] \cap {"date", "time"} = {}
            /\ {"startTimestamp", "endTimestamp"} \subseteq DOMAIN Records(processed_file)[i]
            /\ \E j \in SourcesOf(Records(processed_file)[i]) :
                    SameDescription(Records(processed_file)[i], events[j])

----------------------------------------------------------------------------
(* Totality of the normalization functions *)

\* Claim C22: on loosely typed records (fields missing, null, or holding text
\* out of range such as the time "25:00 - 26:00") the timestamp conversions
\* and intelligent_deduplication return a result and do not raise.
C22_NothingRaises ==
    /\ ~IsNone(converted) => ~Val(converted).raised
    /\ ~IsNone(converted_clean) => ~Val(converted_clean).raised
    /\ ~IsNone(deduplicated) => ~Val(deduplicated).raised

----------------------------------------------------------------------------
(* Further properties of the canonical record, checked under SpecCanon *)

Canonicalizer == {"ensure_location_fields", "generate_event_in_correct_order"}

\* the first labelled occurrence of the description, in text order
FirstLabelled(e, labels, kind) ==
    IF Truthy(GetOr(e, "description", None))
    THEN stripped(search_labelled(Val(e["description"]), 1, labels, kind))
    ELSE None

AllPhoneLabels == PhoneLabels \cup {"WhatsApp"}

\* the mined phone: the number of the first label, with or without the
\* name of the label in front
MinedPhones(e) ==
    IF IsNone(FirstLabelled(e, AllPhoneLabels, "phone")) THEN {None}
    ELSE {FirstLabelled(e, AllPhoneLabels, "phone"),
          Some("WhatsApp: " \o Val(FirstLabelled(e, AllPhoneLabels, "phone")))}

\* Claim C27: a canonicalizer gives a record without locationPhone (without
\* locationDescription) the value of the first labelled occurrence of its
\* description in text order, null when there is none, and keeps a value
\* that is present and not empty.
C27_FirstLabelWins ==
    (applied # << >> /\ LastApplied \in Canonicalizer /\ DOMAIN before.fields # {}) =>
        /\ "locationPhone" \notin DOMAIN before.fields
                => record["locationPhone"] \in MinedPhones(before.fields)
        /\ "locationDescription" \notin DOMAIN before.fields
                => record["locationDescription"]
                        = FirstLabelled(before.fields, LocationLabels, "line")
        /\ \A k \in {"locationPhone", "locationDescription"} :
                Truthy(GetOr(before.fields, k, None)) => record[k] = before.fields[k]

----------------------------------------------------------------------------
(* The scraping run: main of src/src/app.py from the geocoding of the        *)
(* extracted records (line 759) to run_filter_and_deduplicate (line 845)     *)

\* str() of an optional string, as an f-string formats it
py_str(o) == IF IsNone(o) THEN "None" ELSE Val(o)

py_str_number(o) == IF IsNone(o) THEN "None" ELSE str(Val(o))

\* lines 808-816: the key of the raw deduplication, None for a record that is skipped
event_key(e) ==
    IF "name" \notin DOMAIN e THEN None
    ELSE IF "date" \in DOMAIN e THEN Some(py_str(e["name"]) \o "_" \o py_str(e["date"]))
    ELSE IF "startTimestamp" \in DOMAIN e
    THEN Some(py_str(e["name"]) \o "_" \o py_str_number(e["startTimestamp"]))
    ELSE None

\* lines 804-820
RECURSIVE main_unique_events(_, _)
main_unique_events(evs, seen_events) ==
    IF evs = << >> THEN << >>
    ELSE IF IsNone(event_key(Head(evs))) \/ Val(event_key(Head(evs))) \in seen_events
    THEN main_unique_events(Tail(evs), seen_events)
    ELSE <<Head(evs)>>
            \o main_unique_events(Tail(evs), seen_events \cup {Val(event_key(Head(evs)))})

\* ensure_location_fields over a list
ensure_all(evs) == [i \in DOMAIN evs |-> ensure_location_fields(evs[i])]

\* lines 773-801: the records of events_01_raw.json, then those of this run
consolidated_events(file, extracted) ==
    ensure_all((IF IsNone(file) THEN << >> ELSE Val(file)) \o extracted)

convert_events_to_correct_order(evs) ==
    [i \in DOMAIN evs |-> generate_event_in_correct_order(evs[i])]

\* save_events_in_correct_order: the content written, None when nothing is written
save_events_in_correct_order(evs) ==
    IF evs = << >> THEN None ELSE Some(convert_events_to_correct_order(evs))

\* filters.py lines 191-196: a record of the answer that is accepted
filter_valid(e) ==
    "name" \in DOMAIN e /\ ("date" \in DOMAIN e \/ "startTimestamp" \in DOMAIN e)

\* the records of the batch the model returns: those at the indices of kept
RECURSIVE filtered_batch(_, _, _)
filtered_batch(batch, kept, i) ==
    IF i > Len(batch) THEN << >>
    ELSE (IF i \in kept /\ filter_valid(batch[i]) THEN <<batch[i]>> ELSE << >>)
            \o filtered_batch(batch, kept, i + 1)

\* filter_events_with_gemini: [count, curated], the number returned and the
\* content written to the curated file (None: not written).  The flag
\* "interrupted" of filters.py is a global of that module which nothing sets.
filter_events_with_gemini(input, kept) ==
    IF IsNone(input) \/ Val(input) = << >> THEN [count |-> 0, curated |-> None]
    ELSE [count |-> Len(filtered_batch(ensure_all(Val(input)), kept, 1)),
          curated |-> Some(filtered_batch(ensure_all(Val(input)), kept, 1))]

\* filters.py lines 358-376: the content written to the final file
deduplicated_final(curated) ==
    IF intelligent_deduplication(ensure_all(curated)).raised THEN None
    ELSE Some(convert_events_to_correct_order(
                  intelligent_deduplication(ensure_all(curated)).value))

run_filter_and_deduplicate(input, kept) ==
    [curated |-> filter_events_with_gemini(input, kept).curated,
     final |-> IF filter_events_with_gemini(input, kept).count > 0
               THEN deduplicated_final(Val(filter_events_with_gemini(input, kept).curated))
               ELSE None]

\* a variant of main that canonicalizes the records before it resolves
\* their locations
main_order_canonicalize_first ==
    <<"consolidate", "add_coordinates_to_events", "save_raw_events_with_timestamps",
      "save_events_in_correct_order", "run_filter_and_deduplicate">>

\* the steps of main, in program order (lines 761, 763-820, 824, 827, 845)
main_order ==
    <<"add_coordinates_to_events", "consolidate", "save_raw_events_with_timestamps",
      "save_events_in_correct_order", "run_filter_and_deduplicate">>

step_position(pc) == CHOOSE n \in DOMAIN main_order : main_order[n] = pc

step_after(pc) ==
    IF step_position(pc) = Len(main_order) THEN "done"
    ELSE main_order[step_position(pc) + 1]

Running == \E n \in DOMAIN main_order : main_order[n] = run_pc

Scraping == scrape_pc \in {"listing", "details"}

\* one entry of the log for each record a stage works on
Logged(stage, evs) == [i \in DOMAIN evs |-> [stage |-> stage, name |-> GetOr(evs[i], "name", None)]]

----------------------------------------------------------------------------
(* Specification of a scraping run *)

MaxRun == 2

\* Records as the extractor leaves them: one with a description and a venue,
\* one with the legacy location field only, one with a null description.
RunEvents ==
    {[name |-> Some("A"), date |-> Some("2025-03-10"), time |-> Some("6:00 PM"),
      description |-> Some("Live music"), locationName |-> Some("Souq Waqif")],
     [name |-> Some("B"), date |-> Some("2025-03-11"), time |-> Some("7:00 PM"),
      location |-> Some("Katara")],
     [name |-> Some("D"), date |-> Some("2025-03-11"), time |-> Some("7:00 PM"),
      description |-> None, locationName |-> Some("Katara")]}

RunLists == UNION {[1..n -> RunEvents] : n \in 0..MaxRun}

\* events_01_raw.json as an earlier run left it: absent, or one record
EarlierRaw ==
    {None,
     Some(<<generate_event_in_correct_order(
               [name |-> Some("P"), date |-> Some("2025-03-09"), time |-> Some("9:00 AM"),
                description |-> Some("Earlier"), locationName |-> Some("Corniche")])>>)}

InitRun ==
    /\ GeoIdle
    /\ host_offset = QATAR_OFFSET_HOURS * 60
    /\ event = NoEvent
    /\ NotCalled
    /\ DedupIdle
    /\ CanonIdle
    /\ UrlIdle
    /\ PageIdle
    /\ ClockIdle
    /\ ScrapeIdle
    /\ events = << >>
    /\ raw_file \in EarlierRaw
    /\ processed_file = None
    /\ saved = "idle"
    /\ run_pc = main_order[1]
    /\ all_events \in RunLists
    /\ interrupted = FALSE
    /\ in_flight = 0
    /\ geocode_index = 0
    /\ stage_log = << >>
    /\ curated_file = None
    /\ final_file = None

run_frame == <<op, last, prev, written, time_vars, dedup_vars, canon_vars, url_vars,
               page_vars, clock_vars, page_number, collected_event_urls, seen_event_urls,
               page_log, detail_log, scrape_result>>

\* app.py lines 145-148: the top of the loop of add_coordinates_to_events.
\* main skips the call for an empty list (line 759).
GeocodeBegin ==
    /\ run_pc = "add_coordinates_to_events"
    /\ in_flight = 0
    /\ IF interrupted \/ geocode_index >= Len(all_events)
       THEN run_pc' = step_after(run_pc) /\ in_flight' = 0
       ELSE run_pc' = run_pc /\ in_flight' = geocode_index + 1
    /\ UNCHANGED <<scrape_pc, run_frame, geolocation_cache, cache_file, save_vars, all_events,
                   interrupted, geocode_index, stage_log, curated_file, final_file>>

\* lines 150-197: the rest of the iteration
GeocodeFinish ==
    /\ run_pc = "add_coordinates_to_events"
    /\ in_flight # 0
    /\ \E response \in CanonResponses :
         \E r \in {add_coordinates_to_event(all_events[in_flight], response,
                                            geolocation_cache, cache_file)} :
            /\ all_events' = [all_events EXCEPT ![in_flight] = r.event]
            /\ geolocation_cache' = r.mem
            /\ cache_file' = r.file
    /\ geocode_index' = in_flight
    /\ in_flight' = 0
    /\ stage_log' = stage_log \o Logged("add_coordinates_to_events", <<all_events[in_flight]>>)
    /\ UNCHANGED <<scrape_pc, run_frame, save_vars, run_pc, interrupted, curated_file, final_file>>

\* lines 763-820: the records of the raw file and of this run, canonicalized
\* and without duplicates of name and date; no record ends the run (line 846)
Consolidate ==
    /\ run_pc = "consolidate"
    /\ \E consolidated \in {consolidated_events(raw_file, all_events)} :
        /\ events' = main_unique_events(consolidated, {})
        /\ stage_log' = stage_log \o Logged("ensure_location_fields", consolidated)
        /\ run_pc' = IF main_unique_events(consolidated, {}) = << >> THEN "done"
                     ELSE step_after(run_pc)
    /\ UNCHANGED <<scrape_pc, run_frame, geolocation_cache, cache_file, raw_file, processed_file, saved,
                   all_events, interrupted, in_flight, geocode_index, curated_file,
                   final_file>>

\* line 824; main does not catch what the call raises
SaveRaw ==
    /\ run_pc = "save_raw_events_with_timestamps"
    /\ \E r \in {save_raw_events_with_timestamps(events, host_offset)} :
            /\ raw_file' = IF IsNone(r.raw) THEN raw_file ELSE r.raw
            /\ processed_file' = IF IsNone(r.processed) THEN processed_file ELSE r.processed
            /\ saved' = IF r.raised THEN "raised" ELSE "returned"
            /\ run_pc' = IF r.raised THEN "raised" ELSE step_after(run_pc)
    /\ stage_log' = stage_log \o Logged("save_raw_events_with_timestamps", events)
    /\ UNCHANGED <<scrape_pc, run_frame, geolocation_cache, cache_file, events, all_events, interrupted,
                   in_flight, geocode_index, curated_file, final_file>>

\* line 827: the raw file is written a second time
SaveOrdered ==
    /\ run_pc = "save_events_in_correct_order"
    /\ raw_file' = IF IsNone(save_events_in_correct_order(events)) THEN raw_file
                   ELSE save_events_in_correct_order(events)
    /\ run_pc' = step_after(run_pc)
    /\ UNCHANGED <<scrape_pc, run_frame, geolocation_cache, cache_file, events, processed_file, saved,
                   all_events, interrupted, in_flight, geocode_index, stage_log,
                   curated_file, final_file>>

\* line 845: kept is the set of records the content filter lets pass
RunFilterAndDeduplicate ==
    /\ run_pc = "run_filter_and_deduplicate"
    /\ \E kept \in SUBSET (1..Len(Records(processed_file))) :
         \E r \in {run_filter_and_deduplicate(processed_file, kept)} :
            /\ curated_file' = IF IsNone(r.curated) THEN curated_file ELSE r.curated
            /\ final_file' = IF IsNone(r.final) THEN final_file ELSE r.final
            /\ stage_log' = stage_log
                    \o Logged("ensure_location_fields", Records(processed_file))
                    \o (IF Records(r.curated) = << >> THEN << >>
                        ELSE Logged("ensure_location_fields", Records(r.curated))
                                \o Logged("intelligent_deduplication", Records(r.curated)))
    /\ run_pc' = step_after(run_pc)
    /\ UNCHANGED <<scrape_pc, run_frame, geolocation_cache, cache_file, save_vars, all_events,
                   interrupted, in_flight, geocode_index>>

\* lines 103-108: the handler of SIGINT sets the flag and calls exit(0); the
\* SystemExit it raises in the main thread passes "except Exception" and
\* "except KeyboardInterrupt" and ends the process
SignalHandler ==
    /\ Running \/ Scraping
    /\ interrupted' = TRUE
    /\ run_pc' = IF Running THEN "exited" ELSE run_pc
    /\ scrape_pc' = IF Scraping THEN "exited" ELSE scrape_pc
    /\ UNCHANGED <<run_frame, geolocation_cache, cache_file, save_vars, all_events,
                   in_flight, geocode_index, stage_log, curated_file, final_file>>

NextRun ==
    \/ GeocodeBegin
    \/ GeocodeFinish
    \/ Consolidate
    \/ SaveRaw
    \/ SaveOrdered
    \/ RunFilterAndDeduplicate
    \/ SignalHandler

SpecRun == InitRun /\ [][NextRun]_vars

----------------------------------------------------------------------------
(* Properties of a scraping run, checked under SpecRun *)

RunOver == run_pc \in {"done", "exited", "raised"}

\* the run has reached the point where it writes the records out
ResultsWritten == saved # "idle"

\* Claim C21: when the interrupt signal arrives while a batch loop is
\* running, the record in flight is finished, nothing is raised to the
\* caller, and the run goes on to write out what it has accumulated.
C21_CooperativeInterrupt ==
    interrupted =>
        /\ run_pc # "exited"
        /\ RunOver => (in_flight = 0 /\ ResultsWritten)

EndsWith(text, tail) ==
    Len(text) >= Len(tail) /\ Slice(text, Len(text) - Len(tail) + 1, Len(text)) = tail

\* the raw file holds record e with its date and time and with the note
HoldsRaw(r, e) ==
    /\ GetOr(r, "name", None) = GetOr(e, "name", None)
    /\ GetOr(r, "date", None) = GetOr(e, "date", None)
    /\ GetOr(r, "time", None) = GetOr(e, "time", None)
    /\ (HasSchedule(e) /\ ~IsNone(e["description"]))
            => /\ ~IsNone(GetOr(r, "description", None))
               /\ EndsWith(Val(r["description"]), original_schedule(e))

\* Claim C23: after a run that consolidated at least one record, the raw
\* file holds every consolidated record with its free-text date and time
\* and, where the record has a description, a date and a time, with the
\* note "Schedule: <date> <time>" at the end of the description.
C23_RawTierContent ==
    (run_pc = "done" /\ events # << >>) =>
        /\ Len(Records(raw_file)) = Len(events)
        /\ \A i \in DOMAIN events : HoldsRaw(Records(raw_file)[i], events[i])

Geolocation == "add_coordinates_to_events"
FieldCanonicalizer == "ensure_location_fields"
TimestampNormalizer == "save_raw_events_with_timestamps"
DeduplicationEngine == "intelligent_deduplication"

\* entry p is the first pass of its stage over its record
IsFirstPass(p) ==
    \A q \in 1..(p - 1) :
        stage_log[q].stage # stage_log[p].stage \/ stage_log[q].name # stage_log[p].name

\* the first stage has finished its pass over every record before the second
\* starts on any record
StageBefore(first, second) ==
    \A p, q \in DOMAIN stage_log :
        (/\ stage_log[p].stage = first /\ IsFirstPass(p)
         /\ stage_log[q].stage = second /\ IsFirstPass(q)) => p < q

\* every record the second stage works on has passed the first
PassedFirst(first, second) ==
    \A q \in DOMAIN stage_log :
        stage_log[q].stage = second =>
            \E p \in 1..(q - 1) :
                stage_log[p].stage = first /\ stage_log[p].name = stage_log[q].name

\* Claim C26 as stated: Field Canonicalizer, then Geolocation, then
\* Timestamp Normalizer, then Deduplication Engine, each over the whole batch
\* before the next starts.
C26_ClaimedStageOrder ==
    /\ StageBefore(FieldCanonicalizer, Geolocation)
    /\ StageBefore(Geolocation, TimestampNormalizer)
    /\ StageBefore(TimestampNormalizer, DeduplicationEngine)

ExtractedNames == {GetOr(all_events[i], "name", None) : i \in DOMAIN all_events}

\* The order of the code.  Claim C26, amended: the records extracted in the
\* run pass Geolocation first, then the Field Canonicalizer together with
\* the records read back from the raw file, then the Timestamp Normalizer,
\* then the Deduplication Engine; each stage finishes over the whole batch
\* before the next starts on any record.
C26_StageOrder ==
    /\ StageBefore(Geolocation, FieldCanonicalizer)
    /\ StageBefore(FieldCanonicalizer, TimestampNormalizer)
    /\ StageBefore(TimestampNormalizer, DeduplicationEngine)
    /\ PassedFirst(FieldCanonicalizer, TimestampNormalizer)
    /\ PassedFirst(TimestampNormalizer, DeduplicationEngine)
    /\ \A p \in DOMAIN stage_log :
            /\ stage_log[p].stage = Geolocation => stage_log[p].name \in ExtractedNames
            /\ (stage_log[p].stage = FieldCanonicalizer /\ stage_log[p].name \in ExtractedNames)
                    => \E q \in 1..(p - 1) : /\ stage_log[q].stage = Geolocation
                                             /\ stage_log[q].name = stage_log[p].name
    /\ in_flight # 0 => run_pc \in {Geolocation, "exited"}

\* a finished run in which an extracted record and a record of an earlier
\* run have passed every stage
C26_Witness ==
    /\ run_pc = "done"
    /\ Len(all_events) = 2
    /\ \A name \in {Some("A"), Some("P")} :
         \E p \in DOMAIN stage_log :
            stage_log[p].stage = DeduplicationEngine /\ stage_log[p].name = name

-----------------------------------------------------------------------------
(* Listing pages with pagination: scrape_with_pagination (src/src/app.py)   *)

\* the number of listing pages a call may request
MaxPages == 3

\* line 248: the max_pages argument of the call
max_pages == MaxPages

\* what url_extractor may give for one listing page: nothing, one link, links
\* repeated inside the page and across pages, links in another order
PageLinkLists == { << >>, <<"u1">>, <<"u2", "u1", "u2">>, <<"u3", "u2">> }

\* lines 273-287: what app.scrape_url, save_scraped_content and url_extractor
\* do for a listing page: no markdown, an exception, or markdown with its links
ListingAnswers ==
    {[kind |-> "no_markdown", urls |-> << >>], [kind |-> "raised", urls |-> << >>]}
      \cup {[kind |-> "markdown", urls |-> l] : l \in PageLinkLists}

\* lines 318-330: what app.scrape_url and save_scraped_content do for a detail page
DetailAnswers == {"markdown", "no_markdown", "raised"}

\* a page that gives no links to collect: lines 274, 291 and 303
gives_nothing(answer) == answer.kind # "markdown" \/ Len(answer.urls) = 0

ends_pagination_on_any_page(number, answer) == gives_nothing(answer)

\* lines 276-278, 291-293 and 305-307: the three breaks, all behind page_number > 1
ends_pagination(number, answer) == number > 1 /\ gives_nothing(answer)

RECURSIVE append_unseen(_, _)
\* lines 295-298: each link not seen before is appended, in the page's sequence
append_unseen(collected, page_event_urls) ==
    IF Len(page_event_urls) = 0 THEN collected
    ELSE append_unseen(
           IF \E n \in DOMAIN collected : collected[n] = Head(page_event_urls)
             THEN collected
             ELSE Append(collected, Head(page_event_urls)),
           Tail(page_event_urls))

\* lines 261-264: the state at the first pass of the page loop
InitScrape ==
    /\ GeoIdle
    /\ TimeIdle
    /\ SaveIdle
    /\ DedupIdle
    /\ CanonIdle
    /\ UrlIdle
    /\ PageIdle
    /\ ClockIdle
    /\ RunIdle
    /\ scrape_pc = "listing"
    /\ page_number = 1
    /\ collected_event_urls = << >>
    /\ seen_event_urls = {}
    /\ page_log = << >>
    /\ detail_log = << >>
    /\ scrape_result = None

scrape_frame == <<geo_vars, time_vars, save_vars, dedup_vars, canon_vars, url_vars,
                  page_vars, clock_vars, run_vars>>

\* lines 264-307: one pass of the page loop
ScrapeListingPage ==
    /\ scrape_pc = "listing"
    /\ \E answer \in ListingAnswers :
         LET stop == ends_pagination(page_number, answer)
             kept == IF answer.kind = "markdown" /\ ~stop
                       THEN append_unseen(collected_event_urls, answer.urls)
                       ELSE collected_event_urls
         IN  /\ page_log' = IF interrupted THEN page_log ELSE Append(page_log, answer)
             /\ collected_event_urls' = IF interrupted THEN collected_event_urls ELSE kept
             /\ seen_event_urls' =
                  IF interrupted THEN seen_event_urls
                  ELSE seen_event_urls \cup {kept[n] : n \in DOMAIN kept}
             /\ scrape_pc' =
                  IF interrupted \/ stop \/ page_number = max_pages
                    THEN "details" ELSE "listing"
             /\ page_number' =
                  IF interrupted \/ stop \/ page_number = max_pages
                    THEN page_number ELSE page_number + 1
    /\ UNCHANGED <<scrape_frame, detail_log, scrape_result>>

\* lines 311-330: one pass of the detail loop
ScrapeEventDetail ==
    /\ scrape_pc = "details"
    /\ ~interrupted
    /\ Len(detail_log) < Len(collected_event_urls)
    /\ \E answer \in DetailAnswers :
         detail_log' = Append(detail_log,
                              [url |-> collected_event_urls[Len(detail_log) + 1],
                               answer |-> answer])
    /\ UNCHANGED <<scrape_frame, scrape_pc, page_number, collected_event_urls,
                   seen_event_urls, page_log, scrape_result>>

\* lines 311-314 and 332-333: the detail loop is over, the list is returned
ReturnCollected ==
    /\ scrape_pc = "details"
    /\ interrupted \/ Len(detail_log) = Len(collected_event_urls)
    /\ scrape_pc' = "returned"
    /\ scrape_result' = Some(collected_event_urls)
    /\ UNCHANGED <<scrape_frame, page_number, collected_event_urls, seen_event_urls,
                   page_log, detail_log>>

NextScrape ==
    \/ ScrapeListingPage
    \/ ScrapeEventDetail
    \/ ReturnCollected
    \/ SignalHandler

SpecScrape == InitScrape /\ [][NextScrape]_vars

\* every call of the scraper answers or raises (timeout=30000 at lines 273 and
\* 318), and the interpreter keeps running the loops: each step that is possible
\* is eventually taken
SpecScrapeLive == SpecScrape /\ WF_vars(NextScrape)

\* the links of the pages requested, one after the other
RECURSIVE LinksOf(_)
LinksOf(log) ==
    IF Len(log) = 0 THEN << >>
    ELSE LinksOf(SubSeq(log, 1, Len(log) - 1)) \o log[Len(log)].urls

NoRepeat(urls) == \A m, n \in DOMAIN urls : urls[m] = urls[n] => m = n

\* where a link is seen first among all the links of the pages requested
FirstSeen(link, links) ==
    CHOOSE n \in DOMAIN links :
        links[n] = link /\ \A m \in 1..(n - 1) : links[m] # link

FirstSeenOrder(urls, links) ==
    /\ NoRepeat(urls)
    /\ {urls[n] : n \in DOMAIN urls} = {links[n] : n \in DOMAIN links}
    /\ \A m, n \in DOMAIN urls :
         m < n => FirstSeen(urls[m], links) < FirstSeen(urls[n], links)

PaginationOver == scrape_pc \in {"details", "returned"}

ScrapeOver == scrape_pc \in {"returned", "exited"}

\* the page that failed: no content, no event links, or an exception
Failed(n) == page_log[n].kind # "markdown" \/ Len(page_log[n].urls) = 0

PaginationBounds ==
    /\ Len(page_log) <= max_pages
    /\ \A n \in DOMAIN page_log : (n > 1 /\ Failed(n)) => n = Len(page_log)
    /\ PaginationOver =>
         \/ Len(page_log) = max_pages
         \/ Len(page_log) > 1 /\ Failed(Len(page_log))
    /\ Len(detail_log) > 0 => scrape_pc # "listing"
    /\ Len(detail_log) <= Len(collected_event_urls)
    /\ \A n \in DOMAIN detail_log : detail_log[n].url = collected_event_urls[n]
    /\ NoRepeat(collected_event_urls)
    /\ scrape_pc = "returned" =>
         /\ scrape_result = Some(collected_event_urls)
         /\ Len(detail_log) = Len(collected_event_urls)
         /\ FirstSeenOrder(Val(scrape_result), LinksOf(page_log))

\* C30: scrape_with_pagination ends for every behaviour of the scraper; it
\* requests at most max_pages listing pages, stops at the first page after the
\* first that gives no content, no event links or an exception and at no
\* earlier page (a failure of page 1 does not stop it), then requests each
\* collected detail URL once at most, and returns the collected URLs without
\* repeats in the sequence in which they were first seen
C30_PaginationTerminates == [](PaginationBounds) /\ <>(ScrapeOver)

\* a call whose first page failed and went on, that stopped at a later page
\* giving no links, requested every detail page and returned two links or more
C30_Witness ==
    /\ scrape_pc = "returned"
    /\ Len(page_log) = max_pages
    /\ Failed(1)
    /\ page_log[2] = [kind |-> "markdown", urls |-> <<"u2", "u1", "u2">>]
    /\ Failed(Len(page_log))
    /\ scrape_result = Some(<<"u2", "u1">>)
    /\ Len(detail_log) = 2
====
